---- MODULE Spec2Model ----
(***************************************************************************)
(* A model of the Jupyter-Book tree/navigation provider                    *)
(* (BookTreeViewProvider): the TOC-path list, the notebook index, the      *)
(* flattening of a parsed toc.yml, the resolution of sections to tree      *)
(* items, previous/next navigation, the open-markdown throttle and the     *)
(* naming of untitled notebooks.                                           *)
(*                                                                         *)
(* Values of the program are modelled as follows.                          *)
(*  - A parsed YAML value that the code treats as an array is a record     *)
(*    [sk, items]: sk = "list" for a list (items its elements), "scalar"   *)
(*    for a value that is present but is no list, "absent" for undefined   *)
(*    or null.                                                             *)
(*  - A TOC entry is a record [k, id, url, external, sk, items]: k = "obj" *)
(*    for a mapping and "null" for a null list element; id is the entry's  *)
(*    position in the document (its object identity; it also serves as its *)
(*    title); url = "" when the entry has no url; sk/items are the entry's *)
(*    `sections` value as above.                                           *)
(*  - A file path is a record [dir, name, ext, idx]: dir the directory     *)
(*    components, name.ext the file name, idx the numeric suffix "-idx"    *)
(*    appended to an untitled title (0: none).                             *)
(***************************************************************************)
EXTENDS Integers, Sequences, FiniteSets, TLC

VARIABLES
    fsBooks,              \* the disk: book root -> [config, toc] (the _config.yml and _data/toc.yml files)
    files,                \* the disk: the set of content files that exist
    tableOfContentPaths,  \* this._tableOfContentPaths
    allNotebooks,         \* this._allNotebooks, a Map: the set of its keys is its DOMAIN
    errorMessage,         \* this._errorMessage
    openAsUntitled,       \* this._openAsUntitled
    bookPath,             \* this._bookPath
    shown,                \* the messages passed to vscode.window.showErrorMessage, in order
    ret,                  \* what the last call returned (or threw)
    platform,             \* process.platform, a sequence of characters
    editorTitles,         \* the titles of the untitled editors that are open
    pendingOpens,         \* the openNotebookAsUntitled calls made, in order, each with
                          \* whether its document was read and its editor shown
    resource,             \* this._resource
    throttleTimer,        \* this._throttleTimer and the timer it names
    now,                  \* the time
    calls,                \* the runThrottledAction calls made, in order
    previews,             \* the markdown.showPreview invocations, in order
    commands,             \* the bookTreeView.openBook commands executed and not yet run
    projFs,               \* the disk of the projects: file path -> contents, for the files that exist
    projects,             \* ProjectsController.projects
    controllerNodes,      \* AzureArcTreeDataProvider._controllerNodes
    globalState,          \* the value of globalState under 'arcControllers'
    tasks                 \* the async calls made of the two controllers, in order, each with
                          \* its position (pc), its locals and, once completed, its outcome

diskVars == <<fsBooks, files>>
untitledVars == <<platform, editorTitles, pendingOpens>>
throttleVars == <<resource, throttleTimer, now, calls, previews>>
projectVars == <<projFs, projects>>
arcVars == <<controllerNodes, globalState>>
otherVars == <<projectVars, arcVars, tasks>>
bookVarsButShown == <<fsBooks, files, tableOfContentPaths, allNotebooks, errorMessage,
                      openAsUntitled, bookPath, ret, platform, editorTitles, pendingOpens,
                      resource, throttleTimer, now, calls, previews, commands>>
bookVars == <<fsBooks, files, tableOfContentPaths, allNotebooks, errorMessage,
              openAsUntitled, bookPath, shown, ret, platform, editorTitles, pendingOpens,
              resource, throttleTimer, now, calls, previews, commands>>
vars == <<fsBooks, files, tableOfContentPaths, allNotebooks, errorMessage,
          openAsUntitled, bookPath, shown, ret, platform, editorTitles, pendingOpens,
          resource, throttleTimer, now, calls, previews, commands, otherVars>>

----------------------------------------------------------------------------
(* Bounds and the finite sets the inputs are drawn from. *)

\* The largest number of entries of a toc.yml document given to flattenArray alone.
MaxTocNodes == 4

Books == {"book1", "book2", "book3"}

\* The order in which a glob of the workspace folder finds the books.
BookOrder == <<"book1", "book2", "book3">>

\* The folder that holds every book.
Workspace == "workspace"

\* The largest length of the TOC-path list.
MaxTocPaths == 3

Urls == {"readme", "notebook1"}

Exts == {"ipynb", "md"}

----------------------------------------------------------------------------
(* Paths *)

NoPath == [dir |-> <<>>, name |-> "", ext |-> "", idx |-> 0]

\* path.join(root, 'content', url.concat('.' + ext))
ContentPath(root, url, ext) == [dir |-> <<root, "content">>, name |-> url, ext |-> ext, idx |-> 0]

\* path.join(bookPath, '_data', 'toc.yml')
TocPath(root) == [dir |-> <<root, "_data">>, name |-> "toc", ext |-> "yml", idx |-> 0]

\* path.basename(p): the directory is dropped
Basename(p) == [p EXCEPT !.dir = <<>>]

\* path.dirname(path.dirname(contentPath)) of a <root>/_data/toc.yml path
RootOf(tocPath) == tocPath.dir[1]

----------------------------------------------------------------------------
(* TOC documents *)

NoVal == [sk |-> "absent", items |-> <<>>]

ListVal(items) == [sk |-> "list", items |-> items]

NullEntry(id) == [k |-> "null", id |-> id, url |-> "", external |-> FALSE,
                  sk |-> "absent", items |-> <<>>]

\* The `sections` value of an entry (undefined for a null entry: reading it throws).
SectionsOf(entry) == [sk |-> entry.sk, items |-> entry.items]

\* Array.isArray(v)
IsArray(v) == v.sk = "list"

RECURSIVE TreesAt(_, _, _, _)
RECURSIVE ForestsAt(_, _, _, _, _)
\* The entries with exactly n nodes at position id; opts are the [url, external]
\* choices of an entry, leaves the entries a leaf may be (by sk, or "null").
TreesAt(n, id, opts, leaves) ==
    IF n = 1
    THEN {[k |-> "obj", id |-> id, url |-> o.url, external |-> o.external,
           sk |-> s, items |-> <<>>] : o \in opts, s \in leaves \ {"null"}}
         \cup (IF "null" \in leaves THEN {NullEntry(id)} ELSE {})
    ELSE {[k |-> "obj", id |-> id, url |-> o.url, external |-> o.external,
           sk |-> "list", items |-> f] :
             o \in opts, f \in ForestsAt(n - 1, id, 1, opts, leaves)}

\* The lists of entries with exactly n nodes in all, whose first entry is the
\* i-th child of the entry at position parent.
ForestsAt(n, parent, i, opts, leaves) ==
    IF n = 0 THEN {<<>>}
    ELSE UNION {{<<t>> \o f : t \in TreesAt(k, Append(parent, i), opts, leaves),
                              f \in ForestsAt(n - k, parent, i + 1, opts, leaves)} :
                k \in 1..n}

\* The parsed documents that are lists of entries, with at most n entries in all.
TocLists(n, opts, leaves) ==
    {ListVal(f) : f \in UNION {ForestsAt(m, <<>>, 1, opts, leaves) : m \in 0..n}}

----------------------------------------------------------------------------
(* flattenArray *)

(* Titles and messages.  A title is a record [book, entry]: a book's title     *)
(* (config.title) has the book in `book`; an entry's title has the entry's     *)
(* position in `entry`.  A message is a record [msg, title]: the text and the  *)
(* title substituted for {0}.                                                  *)
NoTitle == [book |-> "", entry |-> <<>>]

BookTitle(root) == [book |-> root, entry |-> <<>>]

EntryTitle(entry) == [book |-> "", entry |-> entry.id]

NoMessage == [msg |-> "", title |-> NoTitle]

IncorrectToc(title) == [msg |-> "Error: {0} has an incorrect toc.yml file", title |-> title]

Returned(val) == [ok |-> TRUE, val |-> val, err |-> NoMessage]

Thrown(err) == [ok |-> FALSE, val |-> <<>>, err |-> err]

RECURSIVE flattenReduce(_, _, _)
RECURSIVE flattenReducePostOrder(_, _, _)
RECURSIVE flattenArray(_, _)
\* flattenReduce with the entry put after its sections instead of before them.
flattenReducePostOrder(items, acc, title) ==
    IF items = <<>> THEN Returned(acc)
    ELSE LET val == Head(items) IN
         IF val.k = "null" THEN Thrown(IncorrectToc(title))
         ELSE IF IsArray(SectionsOf(val))
         THEN LET sub == flattenArray(SectionsOf(val), title) IN
              IF sub.ok
              THEN flattenReducePostOrder(Tail(items), (acc \o sub.val) \o <<val>>, title)
              ELSE Thrown(sub.err)
         ELSE flattenReducePostOrder(Tail(items), acc \o <<val>>, title)

\* array.reduce((acc, val) => ..., []) on the elements items still to visit, acc so far
flattenReduce(items, acc, title) ==
    IF items = <<>> THEN Returned(acc)
    ELSE LET val == Head(items) IN
         IF val.k = "null" THEN Thrown(IncorrectToc(title))     \* val.sections: TypeError
         ELSE IF IsArray(SectionsOf(val))
         THEN LET sub == flattenArray(SectionsOf(val), title) IN
              IF sub.ok
              THEN flattenReduce(Tail(items), (acc \o <<val>>) \o sub.val, title)
              ELSE Thrown(sub.err)
         ELSE flattenReduce(Tail(items), acc \o <<val>>, title)

\* flattenArray that takes a value that is no list for the empty list.
flattenArrayLenient(array, title) ==
    IF ~IsArray(array)
    THEN Returned(<<>>)
    ELSE LET r == flattenReduce(array.items, <<>>, title) IN
         IF r.ok THEN r ELSE Thrown(IncorrectToc(title))

flattenArray(array, title) ==
    IF ~IsArray(array)
    THEN Thrown(IncorrectToc(title))       \* array.reduce is not a function / of undefined
    ELSE LET r == flattenReduce(array.items, <<>>, title) IN
         IF r.ok THEN r ELSE Thrown(IncorrectToc(title))

----------------------------------------------------------------------------
(* BookTreeItem *)

\* fs.existsSync(p)
Exists(p) == p \in files

\* tableOfContents.indexOf(page): 0 when page is not an element
IndexOf(seq, x) ==
    IF \E i \in 1..Len(seq) : seq[i] = x
    THEN CHOOSE i \in 1..Len(seq) : seq[i] = x /\ \A j \in 1..(i - 1) : seq[j] # x
    ELSE 0

\* A flattened entry that resolves to a file of the book: it has a url, is not
\* external, and its notebook or its markdown file exists.
IsResolvedLeaf(entry, root) ==
    /\ entry.k = "obj" /\ entry.url # "" /\ ~entry.external
    /\ (Exists(ContentPath(root, entry.url, "ipynb")) \/ Exists(ContentPath(root, entry.url, "md")))

\* The file a resolved leaf is bound to: the notebook when it exists, else the markdown.
LeafPath(entry, root) ==
    IF Exists(ContentPath(root, entry.url, "ipynb"))
    THEN ContentPath(root, entry.url, "ipynb")
    ELSE ContentPath(root, entry.url, "md")

\* previousUri of the item of tableOfContents[index]: the file of the nearest
\* resolved leaf before it in the flattened sequence, NoPath when there is none.
PreviousUri(tableOfContents, index, root) ==
    LET before == {i \in 1..(index - 1) : IsResolvedLeaf(tableOfContents[i], root)} IN
    IF index = 0 \/ before = {} THEN NoPath
    ELSE LeafPath(tableOfContents[CHOOSE i \in before : \A j \in before : j <= i], root)

\* nextUri: the file of the nearest resolved leaf after it.
NextUri(tableOfContents, index, root) ==
    LET after == {i \in (index + 1)..Len(tableOfContents) : IsResolvedLeaf(tableOfContents[i], root)} IN
    IF index = 0 \/ after = {} THEN NoPath
    ELSE LeafPath(tableOfContents[CHOOSE i \in after : \A j \in after : i <= j], root)

\* The value of a Map entry set to undefined, and of a variable that holds no item.
NoItem == [type |-> "undefined", title |-> NoTitle, root |-> "", tableOfContents |-> <<>>,
           page |-> NullEntry(<<>>), untitled |-> FALSE,
           previousUri |-> NoPath, nextUri |-> NoPath]

\* new BookTreeItem({title, root, tableOfContents, page, type, untitled}, icons)
BookTreeItem(type, title, root, tableOfContents, page) ==
    LET index == IndexOf(tableOfContents, page) IN
    [type |-> type, title |-> title, root |-> root, tableOfContents |-> tableOfContents,
     page |-> page, untitled |-> openAsUntitled,
     previousUri |-> IF type = "Book" THEN NoPath ELSE PreviousUri(tableOfContents, index, root),
     nextUri |-> IF type = "Book" THEN NoPath ELSE NextUri(tableOfContents, index, root)]

\* The parsed toc.yml as the page of a Book item.
DocPage(toc) == [k |-> "doc", id |-> <<>>, url |-> "", external |-> FALSE,
                 sk |-> toc.sk, items |-> toc.items]

\* element.sections: the sections of the item's page
ItemSections(element) == SectionsOf(element.page)

----------------------------------------------------------------------------
(* getSections *)

MissingFile(title) == [msg |-> "Missing file : {0}", title |-> title]

\* Map.set(key, value)
MapSet(map, key, value) == [k \in DOMAIN map \cup {key} |-> IF k = key THEN value ELSE map[k]]

\* Map.get(key): NoItem (undefined) when the key is not in the map
MapGet(map, key) == IF key \in DOMAIN map THEN map[key] ELSE NoItem

\* SectionStep with the markdown file probed before the notebook.
SectionStepMarkdownFirst(st, tableOfContents, section, root) ==
    IF section.url = "" THEN st
    ELSE IF section.external
    THEN [st EXCEPT !.notebooks =
            Append(@, BookTreeItem("ExternalLink", EntryTitle(section), root, tableOfContents, section))]
    ELSE LET pathToNotebook == ContentPath(root, section.url, "ipynb")
             pathToMarkdown == ContentPath(root, section.url, "md")
         IN
         IF Exists(pathToMarkdown)
         THEN [st EXCEPT !.notebooks =
                 Append(@, BookTreeItem("Markdown", EntryTitle(section), root, tableOfContents, section))]
         ELSE IF Exists(pathToNotebook)
         THEN LET notebook == BookTreeItem("Notebook", EntryTitle(section), root, tableOfContents, section)
                  set1 == MapSet(st.index, pathToNotebook, notebook)
              IN [st EXCEPT !.notebooks = Append(@, notebook),
                            !.index = IF openAsUntitled
                                      THEN MapSet(set1, Basename(pathToNotebook), notebook)
                                      ELSE set1]
         ELSE [st EXCEPT !.err = MissingFile(EntryTitle(section)),
                         !.shown = Append(@, MissingFile(EntryTitle(section)))]

\* One turn of the loop of getSections for a section; st = [notebooks, index, err, shown].
SectionStep(st, tableOfContents, section, root) ==
    IF section.url = "" THEN st
    ELSE IF section.external
    THEN [st EXCEPT !.notebooks =
            Append(@, BookTreeItem("ExternalLink", EntryTitle(section), root, tableOfContents, section))]
    ELSE LET pathToNotebook == ContentPath(root, section.url, "ipynb")
             pathToMarkdown == ContentPath(root, section.url, "md")
         IN
         IF Exists(pathToNotebook)
         THEN LET notebook == BookTreeItem("Notebook", EntryTitle(section), root, tableOfContents, section)
                  set1 == MapSet(st.index, pathToNotebook, notebook)
              IN [st EXCEPT !.notebooks = Append(@, notebook),
                            !.index = IF openAsUntitled
                                      THEN MapSet(set1, Basename(pathToNotebook), notebook)
                                      ELSE set1]
         ELSE IF Exists(pathToMarkdown)
         THEN [st EXCEPT !.notebooks =
                 Append(@, BookTreeItem("Markdown", EntryTitle(section), root, tableOfContents, section))]
         ELSE [st EXCEPT !.err = MissingFile(EntryTitle(section)),
                         !.shown = Append(@, MissingFile(EntryTitle(section)))]

RECURSIVE SectionsLoop(_, _, _, _, _)
\* SectionsLoop that gives up at the first section whose files are missing.
SectionsLoopAbort(st, tableOfContents, sections, i, root) ==
    IF i > Len(sections) THEN st
    ELSE LET next == SectionStep(st, tableOfContents, sections[i], root) IN
         IF next.shown # st.shown THEN next
         ELSE SectionsLoop(next, tableOfContents, sections, i + 1, root)

SectionsLoop(st, tableOfContents, sections, i, root) ==
    IF i > Len(sections) THEN st
    ELSE SectionsLoop(SectionStep(st, tableOfContents, sections[i], root),
                      tableOfContents, sections, i + 1, root)

\* getSections(tableOfContents, sections, root), from the provider's current state:
\* [notebooks: the list returned, index: _allNotebooks, err: _errorMessage, shown]
getSections(tableOfContents, sections, root) ==
    SectionsLoop([notebooks |-> <<>>, index |-> allNotebooks, err |-> errorMessage, shown |-> shown],
                 tableOfContents, sections, 1, root)

----------------------------------------------------------------------------
(* getBooks *)

ConfigStates == {"ok", "missing", "malformed", "empty"}

TocStates == {"ok", "missing", "malformed"}

\* The message of the error thrown while the _config.yml and toc.yml of a book are
\* read and parsed (NoMessage when both load).
LoadError(root) ==
    LET b == fsBooks[root] IN
    IF b.config = "missing" THEN [msg |-> "ENOENT: no such file or directory _config.yml", title |-> NoTitle]
    ELSE IF b.config = "malformed" THEN [msg |-> "YAMLException _config.yml", title |-> NoTitle]
    ELSE IF b.tocState = "missing" THEN [msg |-> "ENOENT: no such file or directory toc.yml", title |-> NoTitle]
    ELSE IF b.tocState = "malformed" THEN [msg |-> "YAMLException toc.yml", title |-> NoTitle]
    ELSE IF b.config = "empty" THEN [msg |-> "Cannot read property 'title' of undefined", title |-> NoTitle]
    ELSE NoMessage

\* One turn of the loop of getBooks for contentPath; st = [books, err, shown].
BookStep(st, contentPath) ==
    LET root == RootOf(contentPath)
        loadError == LoadError(root)
        flat == flattenArray(fsBooks[root].toc, BookTitle(root))
        error == IF loadError # NoMessage THEN loadError ELSE flat.err
    IN
    IF loadError = NoMessage /\ flat.ok
    THEN [st EXCEPT !.books =
            Append(@, BookTreeItem("Book", BookTitle(root), root, flat.val, DocPage(fsBooks[root].toc)))]
    ELSE [st EXCEPT !.err = error, !.shown = Append(@, error)]

RECURSIVE BooksLoop(_, _, _)
\* BooksLoop with the try around the loop: the first book that fails ends it.
BooksLoopAbort(st, paths, i) ==
    IF i > Len(paths) THEN st
    ELSE LET next == BookStep(st, paths[i]) IN
         IF next.shown # st.shown THEN next
         ELSE BooksLoop(next, paths, i + 1)

BooksLoop(st, paths, i) ==
    IF i > Len(paths) THEN st
    ELSE BooksLoop(BookStep(st, paths[i]), paths, i + 1)

\* getBooks(), from the provider's current state: [books: the list returned, err, shown]
getBooks ==
    BooksLoop([books |-> <<>>, err |-> errorMessage, shown |-> shown], tableOfContentPaths, 1)

----------------------------------------------------------------------------
(* The provider's operations *)

\* The largest number of error messages shown before the model stops calling.
MaxShown == 3

NoIndex == [k \in {} |-> NoItem]

\* getChildren() without an element: getBooks()
GetBooks ==
    /\ Len(shown) < MaxShown
    /\ LET r == getBooks IN
       /\ errorMessage' = r.err
       /\ shown' = r.shown
       /\ ret' = [op |-> "getBooks", books |-> r.books]
    /\ UNCHANGED <<diskVars, tableOfContentPaths, allNotebooks, openAsUntitled, bookPath,
                   untitledVars, throttleVars, commands, otherVars>>

\* The items the host holds after the last call and may pass to the next one.
HeldItems ==
    IF ret.op \in {"getBooks", "openBook"} THEN {ret.books[i] : i \in 1..Len(ret.books)}
    ELSE IF ret.op = "getChildren" THEN {ret.items[i] : i \in 1..Len(ret.items)}
    ELSE {}

\* getChildren(element): the sections of the element, resolved by getSections
\* when the element has sections (a value that is no list has no section with a url)
GetChildren(element) ==
    /\ Len(shown) < MaxShown
    /\ LET sections == ItemSections(element)
           r == getSections(element.tableOfContents,
                            IF sections.sk = "list" THEN sections.items ELSE <<>>,
                            element.root)
       IN
       IF sections.sk # "absent"
       THEN /\ allNotebooks' = r.index
            /\ errorMessage' = r.err
            /\ shown' = r.shown
            /\ ret' = [op |-> "getChildren", element |-> element, items |-> r.notebooks]
       ELSE /\ ret' = [op |-> "getChildren", element |-> element, items |-> <<>>]
            /\ UNCHANGED <<allNotebooks, errorMessage, shown>>
    /\ UNCHANGED <<diskVars, tableOfContentPaths, openAsUntitled, bookPath,
                   untitledVars, throttleVars, commands, otherVars>>

\* await glob(path.join(workspacePath, '**', '_data', 'toc.yml')): the toc.yml
\* files that exist under workspacePath, a book's folder or the workspace folder
Glob(workspacePath) ==
    LET Found(b) == (workspacePath = b \/ workspacePath = Workspace) /\ fsBooks[b].tocState # "missing"
        found == SelectSeq(BookOrder, Found)
    IN [i \in 1..Len(found) |-> TocPath(found[i])]

RECURSIVE GlobAll(_, _)
\* The loop of getTableOfContentFiles: the paths found are appended to paths
GlobAll(paths, workspacePaths) ==
    IF workspacePaths = <<>> THEN paths
    ELSE GlobAll(paths \o Glob(Head(workspacePaths)), Tail(workspacePaths))

\* getTableOfContentFiles(workspacePaths)
GetTableOfContentFiles(workspacePaths) ==
    /\ Len(GlobAll(tableOfContentPaths, workspacePaths)) <= MaxTocPaths
    /\ tableOfContentPaths' = GlobAll(tableOfContentPaths, workspacePaths)
    /\ ret' = [op |-> "getTableOfContentFiles"]
    /\ UNCHANGED <<diskVars, allNotebooks, errorMessage, openAsUntitled, bookPath, shown,
                   untitledVars, throttleVars, commands, otherVars>>

\* this._tableOfContentPaths.indexOf(p) > -1
Contains(seq, x) == \E i \in 1..Len(seq) : seq[i] = x

\* this._allNotebooks.size
MapSize(map) == Cardinality(DOMAIN map)

\* openBook(bookPath, context); showPreviewFile opens a preview or a document of
\* the host and changes nothing of the provider
openBook(path) ==
    /\ Len(shown) < MaxShown
    /\ bookPath' = path
    /\ IF Contains(tableOfContentPaths, TocPath(path)) /\ MapSize(allNotebooks) > 0
       THEN UNCHANGED tableOfContentPaths
       ELSE /\ Len(GlobAll(tableOfContentPaths, <<path>>)) <= MaxTocPaths
            /\ tableOfContentPaths' = GlobAll(tableOfContentPaths, <<path>>)
    /\ LET r == BooksLoop([books |-> <<>>, err |-> errorMessage, shown |-> shown],
                          tableOfContentPaths', 1)
       IN /\ errorMessage' = r.err
          /\ shown' = r.shown
          /\ ret' = [op |-> "openBook", books |-> r.books]
    /\ UNCHANGED <<diskVars, allNotebooks, openAsUntitled, untitledVars, throttleVars, otherVars>>

\* openBook(path, context) called by the user
OpenBook(path) == openBook(path) /\ UNCHANGED commands

\* A bookTreeView.openBook command that was executed runs: openBook(path, false)
OpenBookCommand ==
    /\ commands # <<>>
    /\ openBook(Head(commands))
    /\ commands' = Tail(commands)

----------------------------------------------------------------------------
(* flattenArray on its own: one book whose toc.yml is any document of at most *)
(* MaxTocNodes entries, or no list at all.                                    *)

FlattenLeaves == {"absent", "scalar", "list", "null"}

FlattenDocs ==
    TocLists(MaxTocNodes, {[url |-> "", external |-> FALSE]}, FlattenLeaves)
    \cup {NoVal, [sk |-> "scalar", items |-> <<>>]}

\* The values of process.platform the model runs on.
Win32 == <<"w", "i", "n", "3", "2">>

Darwin == <<"d", "a", "r", "w", "i", "n">>

Linux == <<"l", "i", "n", "u", "x">>

Platforms == {Win32, Darwin, Linux}

\* The untitled-name state and the throttle state of a provider just constructed.
InitUntitledIdle == platform = Linux /\ editorTitles = {} /\ pendingOpens = <<>>

\* A disk without project files.
NoFiles == [p \in {} |-> ""]

NoTimer == [set |-> FALSE, pending |-> FALSE, due |-> 0, call |-> 0]

\* No timer set and no command waiting.
InitTimerIdle ==
    /\ resource = "" /\ throttleTimer = NoTimer /\ now = 0 /\ calls = <<>> /\ previews = <<>>
    /\ commands = <<>>

\* The other controllers: no project file, no project open, no Arc controller, no call made.
InitOthersIdle ==
    /\ projFs = NoFiles /\ projects = <<>> /\ controllerNodes = <<>> /\ globalState = <<>>
    /\ tasks = <<>>

InitThrottleIdle == InitTimerIdle /\ InitOthersIdle

BrokenBook == [config |-> "missing", tocState |-> "missing", toc |-> NoVal]

InitFlatten ==
    /\ \E d \in FlattenDocs :
         fsBooks = [b \in Books |-> IF b = "book1"
                                    THEN [config |-> "ok", tocState |-> "ok", toc |-> d]
                                    ELSE BrokenBook]
    /\ files = {}
    /\ tableOfContentPaths = <<TocPath("book1")>>
    /\ allNotebooks = NoIndex
    /\ errorMessage = NoMessage
    /\ openAsUntitled = FALSE
    /\ bookPath = ""
    /\ shown = <<>>
    /\ ret = [op |-> "none"]
    /\ InitUntitledIdle
    /\ InitThrottleIdle

NextFlatten == GetBooks

SpecFlatten == InitFlatten /\ [][NextFlatten]_vars

----------------------------------------------------------------------------
(* Positions in a TOC document *)

\* p is a proper prefix of q: the entry at p is an ancestor of the entry at q
IsAncestor(p, q) == Len(p) < Len(q) /\ SubSeq(q, 1, Len(p)) = p

\* p and q are positions of children of the same parent
AreSiblings(p, q) ==
    /\ Len(p) = Len(q) /\ Len(p) > 0
    /\ SubSeq(p, 1, Len(p) - 1) = SubSeq(q, 1, Len(q) - 1)

RECURSIVE EntriesOf(_)
\* Every entry of a list of entries, with the entries below it; the sections of
\* an entry count when they are a list.
EntriesOf(items) ==
    UNION {{items[i]} \cup (IF items[i].sk = "list" THEN EntriesOf(items[i].items) ELSE {}) :
           i \in 1..Len(items)}

\* A valid TOC document: a list of entries whose sections, when present, is a list of entries.
ValidToc(toc) ==
    /\ toc.sk = "list"
    /\ \A e \in EntriesOf(toc.items) : e.k = "obj" /\ e.sk \in {"absent", "list"}

\* seq is the depth-first pre-order sequence of the entries of toc.
IsPreOrder(seq, toc) ==
    LET all == EntriesOf(toc.items) IN
    /\ {seq[i] : i \in 1..Len(seq)} = all
    /\ Len(seq) = Cardinality(all)
    /\ \A i, j \in 1..Len(seq) :
         /\ IsAncestor(seq[i].id, seq[j].id) => i < j
         /\ (AreSiblings(seq[i].id, seq[j].id) /\ seq[i].id[Len(seq[i].id)] < seq[j].id[Len(seq[j].id)])
               => i < j
    /\ \A i \in 1..Len(seq) :
         LET n == Cardinality({e \in all : IsAncestor(seq[i].id, e.id)}) IN
         \A j \in 1..Len(seq) : IsAncestor(seq[i].id, seq[j].id) <=> (i < j /\ j <= i + n)

\* C1: for every valid TOC document, the book that getBooks loads holds in
\* tableOfContents the depth-first pre-order sequence of the document: every
\* entry exactly once, an entry before all its descendants, the descendants of
\* an entry a contiguous block right after it, siblings in document order.
C1_FlattenIsPreOrder ==
    (ret.op = "getBooks" /\ ValidToc(fsBooks["book1"].toc)) =>
        /\ Len(ret.books) = 1
        /\ IsPreOrder(ret.books[1].tableOfContents, fsBooks["book1"].toc)

\* A document with a grandchild and a later sibling has been flattened.
C1_Witness ==
    /\ ret.op = "getBooks" /\ ValidToc(fsBooks["book1"].toc)
    /\ Len(ret.books) = 1
    /\ LET t == ret.books[1].tableOfContents IN
       /\ Len(t) = 4
       /\ t[1].id = <<1>> /\ t[2].id = <<1, 1>> /\ t[3].id = <<1, 1, 1>> /\ t[4].id = <<2>>

\* Some entry reached by the flattening has a `sections` that is present but is no list.
HasNonListSections(toc) ==
    toc.sk = "list" /\ \E e \in EntriesOf(toc.items) : e.k = "obj" /\ e.sk = "scalar"

\* The document is no list, or an element of it or of a sections list in it is null.
IsMalformedToc(toc) ==
    toc.sk # "list" \/ \E e \in EntriesOf(toc.items) : e.k = "null"

\* getBooks returned no book and recorded the structural error with the book's title.
FlattenFailed ==
    /\ ret.books = <<>>
    /\ errorMessage = IncorrectToc(BookTitle("book1"))
    /\ shown # <<>> /\ shown[Len(shown)] = IncorrectToc(BookTitle("book1"))

\* C2 as stated: if an entry's `sections` is present but not a list, flattening
\* the book fails with the structural error carrying the book's title and
\* getBooks yields no Book node for it.
C2_NonListSectionsFail ==
    (ret.op = "getBooks" /\ HasNonListSections(fsBooks["book1"].toc)) => FlattenFailed

\* C2 amended: flattening fails with the structural error carrying the book's
\* title, and getBooks yields no Book node, exactly when the document is no list
\* or holds a null entry; an entry whose `sections` is present but not a list
\* does not make it fail: the entry is kept as a leaf of the flattened sequence.
C2_FlattenFailsOnMalformed ==
    ret.op = "getBooks" =>
        LET toc == fsBooks["book1"].toc IN
        /\ IsMalformedToc(toc) <=> FlattenFailed
        /\ ~IsMalformedToc(toc) =>
             /\ Len(ret.books) = 1
             /\ \A e \in EntriesOf(toc.items) :
                  e.sk = "scalar" =>
                     \E i \in 1..Len(ret.books[1].tableOfContents) : ret.books[1].tableOfContents[i] = e

\* A book with an entry whose sections is no list has been loaded.
C2_Witness ==
    /\ ret.op = "getBooks"
    /\ HasNonListSections(fsBooks["book1"].toc)
    /\ Len(ret.books) = 1
    /\ Len(ret.books[1].tableOfContents) >= 2

----------------------------------------------------------------------------
(* getSections on one book: its toc.yml is any list of at most MaxSections    *)
(* entries, with or without a url, external or not, and any of the notebook   *)
(* and markdown files of its urls exist.                                      *)

MaxSections == 2

SectionOpts ==
    {[url |-> "", external |-> FALSE]} \cup [url : Urls, external : BOOLEAN]

ContentFiles(root) == {ContentPath(root, u, x) : u \in Urls, x \in Exts}

InitSections ==
    /\ \E d \in TocLists(MaxSections, SectionOpts, {"absent"}) :
         fsBooks = [b \in Books |-> IF b = "book1"
                                    THEN [config |-> "ok", tocState |-> "ok", toc |-> d]
                                    ELSE BrokenBook]
    /\ files \in SUBSET ContentFiles("book1")
    /\ tableOfContentPaths = <<TocPath("book1")>>
    /\ allNotebooks = NoIndex
    /\ errorMessage = NoMessage
    /\ openAsUntitled \in BOOLEAN
    /\ bookPath = ""
    /\ shown = <<>>
    /\ ret = [op |-> "none"]
    /\ InitUntitledIdle
    /\ InitThrottleIdle

NextSections ==
    \/ GetBooks
    \/ \E element \in HeldItems : GetChildren(element)

SpecSections == InitSections /\ [][NextSections]_vars

\* The sections getSections was last called with, and the root it was called with.
CalledSections ==
    LET s == ItemSections(ret.element) IN IF s.sk = "list" THEN s.items ELSE <<>>

\* The number of returned items made for section s.
ItemsFor(s) == Cardinality({i \in 1..Len(ret.items) : ret.items[i].page = s})

\* C3: for every non-external section with a url, getSections produces at most
\* one node; when <root>/content/<url>.ipynb exists the node is a Notebook,
\* whether or not <url>.md exists, and a Markdown node is produced only when the
\* .ipynb does not exist and the .md does.
C3_NotebookBeforeMarkdown ==
    ret.op = "getChildren" =>
        \A k \in 1..Len(CalledSections) :
            LET s == CalledSections[k]
                nb == Exists(ContentPath(ret.element.root, s.url, "ipynb"))
                md == Exists(ContentPath(ret.element.root, s.url, "md"))
            IN
            (s.url # "" /\ ~s.external) =>
                /\ ItemsFor(s) <= 1
                /\ nb => \E i \in 1..Len(ret.items) :
                            ret.items[i].page = s /\ ret.items[i].type = "Notebook"
                /\ \A i \in 1..Len(ret.items) :
                      (ret.items[i].page = s /\ ret.items[i].type = "Markdown") => (~nb /\ md)

\* A section whose notebook and markdown both exist has been resolved to a Notebook.
C3_Witness ==
    /\ ret.op = "getChildren"
    /\ \E k \in 1..Len(CalledSections) :
          LET s == CalledSections[k] IN
          /\ s.url # "" /\ ~s.external
          /\ Exists(ContentPath(ret.element.root, s.url, "ipynb"))
          /\ Exists(ContentPath(ret.element.root, s.url, "md"))
          /\ \E i \in 1..Len(ret.items) : ret.items[i].page = s /\ ret.items[i].type = "Notebook"

\* The section resolves to a node: it has a url and is external or has a file.
IsResolvable(s, root) ==
    /\ s.url # ""
    /\ (s.external \/ Exists(ContentPath(root, s.url, "ipynb")) \/ Exists(ContentPath(root, s.url, "md")))

\* The section has a url, is not external, and has neither file.
IsMissing(s, root) ==
    /\ s.url # "" /\ ~s.external
    /\ ~Exists(ContentPath(root, s.url, "ipynb")) /\ ~Exists(ContentPath(root, s.url, "md"))

\* The messages shown by the last call: shown grows by them.
RECURSIVE MissingMessages(_, _)
MissingMessages(sections, root) ==
    IF sections = <<>> THEN <<>>
    ELSE (IF IsMissing(Head(sections), root) THEN <<MissingFile(EntryTitle(Head(sections)))>> ELSE <<>>)
         \o MissingMessages(Tail(sections), root)

\* C4: a non-external section with a url and neither file is left out of the
\* list getSections returns, a message with its title is recorded and shown, the
\* call returns (getChildren is the only step, and it always returns a list), and
\* the other sections are resolved: the list is exactly the resolvable sections
\* in their order.  Stated on the step: the messages shown during the call are
\* those of the missing sections in order, and errorMessage is the last of them.
C4_MissingFileIsSkipped ==
    [][\A element \in HeldItems :
          (GetChildren(element) /\ ItemSections(element).sk = "list") =>
             LET sections == ItemSections(element).items
                 IsRes(s) == IsResolvable(s, element.root)
                 kept == SelectSeq(sections, IsRes)
                 msgs == MissingMessages(sections, element.root)
             IN
             /\ ret'.op = "getChildren"
             /\ Len(ret'.items) = Len(kept)
             /\ \A i \in 1..Len(kept) : ret'.items[i].page = kept[i]
             /\ shown' = shown \o msgs
             /\ msgs # <<>> => errorMessage' = msgs[Len(msgs)]
             /\ msgs = <<>> => errorMessage' = errorMessage]_vars

\* A call has skipped a missing section and resolved a section after it.
C4_Witness ==
    /\ ret.op = "getChildren"
    /\ \E k \in 1..Len(CalledSections) :
          /\ IsMissing(CalledSections[k], ret.element.root)
          /\ errorMessage.msg = "Missing file : {0}"
          /\ \E i \in 1..Len(shown) : shown[i] = MissingFile(EntryTitle(CalledSections[k]))
          /\ \A i \in 1..Len(ret.items) : ret.items[i].page # CalledSections[k]
          /\ \E j \in (k + 1)..Len(CalledSections), i \in 1..Len(ret.items) :
                ret.items[i].page = CalledSections[j]

----------------------------------------------------------------------------
(* getBooks over several books: each book's _config.yml is fine, missing,     *)
(* malformed or empty, and its toc.yml is malformed or one of a few documents  *)
(* (the third book is one that loads).                                        *)

BookDocs ==
    {ListVal(<<[k |-> "obj", id |-> <<1>>, url |-> "readme", external |-> FALSE,
                sk |-> "absent", items |-> <<>>]>>),
     ListVal(<<NullEntry(<<1>>)>>)}

LoadableBook ==
    [config |-> "ok", tocState |-> "ok",
     toc |-> ListVal(<<[k |-> "obj", id |-> <<1>>, url |-> "readme", external |-> FALSE,
                        sk |-> "absent", items |-> <<>>]>>)]

BookDisks ==
    {[config |-> "ok", tocState |-> "ok", toc |-> d] : d \in BookDocs}
    \cup {[config |-> c, tocState |-> "ok", toc |-> ListVal(<<>>)] : c \in ConfigStates \ {"ok"}}
    \cup {[config |-> "ok", tocState |-> "malformed", toc |-> NoVal]}

InitBooks ==
    /\ fsBooks \in {f \in [Books -> BookDisks] : f["book3"] = LoadableBook}
    /\ files = {ContentPath(b, "readme", "ipynb") : b \in Books}
    /\ tableOfContentPaths = <<>>
    /\ allNotebooks = NoIndex
    /\ errorMessage = NoMessage
    /\ openAsUntitled = FALSE
    /\ bookPath = ""
    /\ shown = <<>>
    /\ ret = [op |-> "none"]
    /\ InitUntitledIdle
    /\ InitThrottleIdle

NextBooks ==
    \/ \E p \in Books \cup {Workspace} : GetTableOfContentFiles(<<p>>)
    \/ \E b \in Books : OpenBook(b)
    \/ GetBooks
    \/ \E element \in HeldItems : GetChildren(element)

SpecBooks == InitBooks /\ [][NextBooks]_vars

\* The book at root loads: its _config.yml and toc.yml parse and the document flattens.
IsLoadable(root) ==
    /\ fsBooks[root].config = "ok" /\ fsBooks[root].tocState = "ok"
    /\ ~IsMalformedToc(fsBooks[root].toc)

\* C5: getBooks is a best-effort load: a listed book whose _config.yml is
\* missing or whose YAML or TOC fails to parse gives no Book node and one shown
\* error, every other listed book is loaded, and the call returns the loadable
\* books in list order (it is the only step getBooks takes, so it never throws).
C5_GetBooksIsBestEffort ==
    [][GetBooks =>
          LET IsOk(p) == IsLoadable(RootOf(p))
              IsBad(p) == ~IsLoadable(RootOf(p))
              good == SelectSeq(tableOfContentPaths, IsOk)
              bad == SelectSeq(tableOfContentPaths, IsBad)
          IN
          /\ ret'.op = "getBooks"
          /\ Len(ret'.books) = Len(good)
          /\ \A i \in 1..Len(good) :
                /\ ret'.books[i].type = "Book"
                /\ ret'.books[i].root = RootOf(good[i])
                /\ ret'.books[i].title = BookTitle(RootOf(good[i]))
          /\ Len(shown') = Len(shown) + Len(bad)
          /\ bad # <<>> => errorMessage' = shown'[Len(shown')]]_vars

\* getBooks has returned two books of a list of three whose middle book failed.
C5_Witness ==
    /\ ret.op = "getBooks"
    /\ Len(tableOfContentPaths) = 3
    /\ IsLoadable(RootOf(tableOfContentPaths[1]))
    /\ ~IsLoadable(RootOf(tableOfContentPaths[2]))
    /\ IsLoadable(RootOf(tableOfContentPaths[3]))
    /\ Len(ret.books) = 2
    /\ Len(shown) = 1

----------------------------------------------------------------------------
(* openMarkdown and runThrottledAction.  The action a call supplies is named  *)
(* by the call's number; a preview records the call whose action ran, whether *)
(* the call itself or the timer ran it, when, and how many calls had been     *)
(* made by then.                                                              *)

ThrottleDelay == 300

\* The time between two ticks of the clock.
TickLen == 100

MaxTime == 800

MaxCalls == 3

Resources == {"a.md", "b.md"}

\* runThrottledAction(resource, action) without the clearTimeout of a resource change.
runThrottledActionNoCancel(res, call) ==
    LET isResourceChange == res # resource IN
    [resource |-> res,
     throttleTimer |-> IF ~throttleTimer.set /\ ~isResourceChange
                       THEN [set |-> TRUE, pending |-> TRUE, due |-> now + ThrottleDelay, call |-> call]
                       ELSE throttleTimer,
     run |-> ~throttleTimer.set /\ isResourceChange]

\* runThrottledAction(resource, action) with the action of a repeated request run at once.
runThrottledActionNoDelay(res, call) ==
    LET isResourceChange == res # resource
        timer == IF isResourceChange THEN NoTimer ELSE throttleTimer
    IN
    [resource |-> res, throttleTimer |-> timer, run |-> ~timer.set]

\* runThrottledAction(resource, action): the new _resource and _throttleTimer, and
\* whether action() is called within the call
runThrottledAction(res, call) ==
    LET isResourceChange == res # resource
        \* clearTimeout(this._throttleTimer); this._throttleTimer = undefined
        timer == IF isResourceChange THEN NoTimer ELSE throttleTimer
    IN
    [resource |-> res,
     throttleTimer |-> IF ~timer.set /\ ~isResourceChange
                       THEN [set |-> TRUE, pending |-> TRUE, due |-> now + ThrottleDelay, call |-> call]
                       ELSE timer,
     run |-> ~timer.set /\ isResourceChange]

\* The action of call: vscode.commands.executeCommand('markdown.showPreview', Uri.file(resource))
Preview(call, res, by) == [call |-> call, res |-> res, at |-> now, by |-> by, seen |-> Len(calls)]

\* openMarkdown(resource)
OpenMarkdown(res) ==
    /\ Len(calls) < MaxCalls
    /\ LET call == Len(calls) + 1
           r == runThrottledAction(res, call)
       IN
       /\ calls' = Append(calls, [res |-> res, at |-> now, change |-> res # resource])
       /\ resource' = r.resource
       /\ throttleTimer' = r.throttleTimer
       /\ previews' = IF r.run
                      THEN Append(previews, [Preview(call, res, "call") EXCEPT !.seen = call])
                      ELSE previews
    /\ ret' = [op |-> "openMarkdown"]
    /\ UNCHANGED <<diskVars, tableOfContentPaths, allNotebooks, errorMessage, openAsUntitled,
                   bookPath, shown, untitledVars, now,
                   commands, otherVars>>

\* The timer set by setTimeout(() => action(), 300) is due.
TimerDue == throttleTimer.pending /\ now >= throttleTimer.due

\* The timer fires: action() runs; _throttleTimer keeps the handle of the timer
TimerFires ==
    /\ TimerDue
    /\ previews' = Append(previews, Preview(throttleTimer.call, calls[throttleTimer.call].res, "timer"))
    /\ throttleTimer' = [throttleTimer EXCEPT !.pending = FALSE]
    /\ UNCHANGED <<diskVars, tableOfContentPaths, allNotebooks, errorMessage, openAsUntitled,
                   bookPath, shown, ret, untitledVars, resource, now, calls,
                   commands, otherVars>>

\* Time passes; a timer that is due fires before it passes further.
Tick ==
    /\ ~TimerDue
    /\ now + TickLen <= MaxTime
    /\ now' = now + TickLen
    /\ UNCHANGED <<diskVars, tableOfContentPaths, allNotebooks, errorMessage, openAsUntitled,
                   bookPath, shown, ret, untitledVars, resource, throttleTimer, calls, previews,
                   commands, otherVars>>

InitThrottle ==
    /\ fsBooks = [b \in Books |-> BrokenBook]
    /\ files = {}
    /\ tableOfContentPaths = <<>>
    /\ allNotebooks = NoIndex
    /\ errorMessage = NoMessage
    /\ openAsUntitled \in BOOLEAN
    /\ bookPath = ""
    /\ shown = <<>>
    /\ ret = [op |-> "none"]
    /\ InitUntitledIdle
    /\ InitThrottleIdle

NextThrottle ==
    \/ \E res \in Resources : OpenMarkdown(res)
    \/ TimerFires
    \/ Tick

SpecThrottle == InitThrottle /\ [][NextThrottle]_vars

\* The previews that ran the action of call k.
PreviewsOf(k) == {i \in 1..Len(previews) : previews[i].call = k}

\* Calls k and k + 1 are for the same path, the second inside the window of the first.
SamePathTwice(k) ==
    /\ k + 1 <= Len(calls)
    /\ calls[k + 1].res = calls[k].res
    /\ calls[k + 1].at - calls[k].at < ThrottleDelay

\* The timer of call k can no longer fire: it is not pending for call k.
Settled(k) == ~(throttleTimer.pending /\ throttleTimer.call = k)

\* C6 as stated: when openMarkdown is called twice for the same path, the second
\* call inside the 300-unit window of the first and no call in between, then,
\* once no timer of theirs is pending, markdown.showPreview has been invoked
\* exactly once for the two calls, with the action of the second call.
C6_TwoCallsOnePreview ==
    \A k \in 1..Len(calls) :
        (SamePathTwice(k) /\ Settled(k) /\ Settled(k + 1)) =>
            /\ PreviewsOf(k) = {}
            /\ Cardinality(PreviewsOf(k + 1)) = 1

\* A call for another path was made after call k and before time t was over.
CancelledBy(k, t) ==
    \E j \in (k + 1)..Len(calls) : calls[j].res # calls[k].res /\ calls[j].at <= t

\* C6 amended: when openMarkdown is called twice for the same path, the first
\* call being a change of path (so that it ran its preview at once), the second
\* inside the window and no call in between, showPreview is invoked twice for
\* the two calls: once within the first call, with its action, and once by the
\* timer, with the action of the second call, 300 units after the second call
\* (not at all when a call for another path cancels the timer before that).
C6_TwoCallsTwoPreviews ==
    \A k \in 1..Len(calls) :
        (SamePathTwice(k) /\ calls[k].change) =>
            /\ \E i \in 1..Len(previews) :
                  /\ PreviewsOf(k) = {i}
                  /\ previews[i].by = "call" /\ previews[i].at = calls[k].at
            /\ Cardinality(PreviewsOf(k + 1)) <= 1
            /\ \A i \in PreviewsOf(k + 1) :
                  /\ previews[i].by = "timer"
                  /\ previews[i].at >= calls[k + 1].at + ThrottleDelay
                  /\ previews[i].at < calls[k + 1].at + ThrottleDelay + TickLen
            /\ Settled(k + 1) =>
                  \/ Cardinality(PreviewsOf(k + 1)) = 1
                  \/ /\ PreviewsOf(k + 1) = {}
                     /\ CancelledBy(k + 1, calls[k + 1].at + ThrottleDelay + TickLen)

\* Two calls for the same path inside the window have led to two previews.
C6_Witness ==
    /\ Len(calls) >= 2
    /\ SamePathTwice(1) /\ calls[1].change
    /\ calls[2].at > calls[1].at
    /\ Len(previews) = 2
    /\ previews[1].call = 1 /\ previews[2].call = 2 /\ previews[2].by = "timer"

\* C7: a request whose resource differs from the resource requested last (the
\* first request included) runs its action within the call, and an action
\* pending on the timer for the resource before is cancelled: it never runs
\* afterwards, so every preview run by the timer has seen no request for another
\* resource since the call that set the timer.
C7_ResourceChangeRunsAtOnce ==
    /\ \A k \in 1..Len(calls) :
          calls[k].change =>
             \E i \in 1..Len(previews) :
                /\ previews[i].call = k /\ previews[i].by = "call"
                /\ previews[i].at = calls[k].at /\ previews[i].seen = k
    /\ \A i \in 1..Len(previews) :
          previews[i].by = "timer" =>
             \A j \in (previews[i].call + 1)..previews[i].seen : calls[j].res = previews[i].res
    /\ \A k \in 1..Len(calls) :
          (throttleTimer.pending /\ calls[k].change) => throttleTimer.call > k

\* A timer was pending for one path, a request for another path ran at once, and
\* the time the timer was due has passed without its action.
C7_Witness ==
    /\ Len(calls) = 3
    /\ calls[1].res = calls[2].res /\ calls[3].res # calls[2].res
    /\ calls[3].at < calls[2].at + ThrottleDelay
    /\ now > calls[2].at + ThrottleDelay
    /\ PreviewsOf(2) = {}
    /\ \E i \in PreviewsOf(3) : previews[i].at = calls[3].at

----------------------------------------------------------------------------
(* getNavigation *)

NoUri == [scheme |-> "", fsPath |-> NoPath]

\* vscode.Uri.file(p)
UriFile(p) == [scheme |-> "file", fsPath |-> p]

\* vscode.Uri.parse(p).with({ scheme: 'untitled' })
UriUntitled(p) == [scheme |-> "untitled", fsPath |-> p]

\* NavigationKey with the key chosen by the provider's mode, not by the uri.
NavigationKeyByMode(uri) == IF ~openAsUntitled THEN uri.fsPath ELSE Basename(uri.fsPath)

\* The key getNavigation looks the uri up with.
NavigationKey(uri) == IF uri.scheme # "untitled" THEN uri.fsPath ELSE Basename(uri.fsPath)

\* previous / next of the result: the item's path as a Uri, undefined when it has none
NavigationUri(p) ==
    IF p = NoPath THEN NoUri
    ELSE IF openAsUntitled THEN UriUntitled(p) ELSE UriFile(p)

\* The NavigationResult of getNavigation(uri)
getNavigation(uri) ==
    LET notebook == MapGet(allNotebooks, NavigationKey(uri)) IN
    IF notebook # NoItem
    THEN [hasNavigation |-> TRUE,
          previous |-> NavigationUri(notebook.previousUri),
          next |-> NavigationUri(notebook.nextUri)]
    ELSE [hasNavigation |-> FALSE, previous |-> NoUri, next |-> NoUri]

\* getNavigation(uri)
GetNavigation(uri) ==
    /\ ret' = [op |-> "getNavigation", uri |-> uri, result |-> getNavigation(uri)]
    /\ UNCHANGED <<diskVars, tableOfContentPaths, allNotebooks, errorMessage, openAsUntitled,
                   bookPath, shown, untitledVars, throttleVars, commands, otherVars>>

----------------------------------------------------------------------------
(* The provider over two books: the first book's toc.yml is any list of at    *)
(* most MaxNavNodes entries, nested or not, with or without a url, and any of *)
(* the files the entries name exist; the second book has two notebooks of the *)
(* same names.                                                                *)

MaxNavNodes == 3

NavOpts == [url : Urls \cup {""}, external : {FALSE}]

Entry(id, url) == [k |-> "obj", id |-> id, url |-> url, external |-> FALSE,
                   sk |-> "absent", items |-> <<>>]

SecondBookDocs == {ListVal(<<Entry(<<1>>, "notebook1"), Entry(<<2>>, "readme")>>)}

\* The content files the entries of the book's document name (notebook1 has no
\* markdown twin).
ReferencedFiles(root, toc) ==
    {ContentPath(root, e.url, x) : e \in {e \in EntriesOf(toc.items) : e.url # ""}, x \in Exts}
    \ {ContentPath(root, "notebook1", "md")}

Init ==
    /\ \E d1 \in TocLists(MaxNavNodes, NavOpts, {"absent"}), d2 \in SecondBookDocs :
         /\ fsBooks = [b \in Books |->
                         IF b = "book1" THEN [config |-> "ok", tocState |-> "ok", toc |-> d1]
                         ELSE IF b = "book2" THEN [config |-> "ok", tocState |-> "ok", toc |-> d2]
                         ELSE BrokenBook]
         /\ \E f1 \in SUBSET ReferencedFiles("book1", d1) :
               files = f1 \cup {ContentPath("book2", e.url, "ipynb") : e \in EntriesOf(d2.items)}
    /\ tableOfContentPaths = <<>>
    /\ allNotebooks = NoIndex
    /\ errorMessage = NoMessage
    /\ openAsUntitled = FALSE
    /\ bookPath = ""
    /\ shown = <<>>
    /\ ret = [op |-> "none"]
    /\ InitUntitledIdle
    /\ InitThrottleIdle

\* initialze(workspaceFolders, null, context): the scan of the workspace folder
\* that the constructor starts; it completes once, at any time
Initialze ==
    /\ tableOfContentPaths = <<>>
    /\ GetTableOfContentFiles(<<Workspace>>)

Next ==
    \/ Initialze
    \/ GetBooks
    \/ \E element \in HeldItems : GetChildren(element)

Spec == Init /\ [][Next]_vars

\* Position p comes before position q in the document read depth first: p is an
\* ancestor of q, or they part at an index where p has the smaller number.
ComesBefore(p, q) ==
    \/ IsAncestor(p, q)
    \/ \E i \in 1..Len(p) :
          /\ i <= Len(q)
          /\ SubSeq(p, 1, i - 1) = SubSeq(q, 1, i - 1)
          /\ p[i] < q[i]

\* The resolved leaves of the book at root, as entries of its document.
LeavesOf(root) == {e \in EntriesOf(fsBooks[root].toc.items) : IsResolvedLeaf(e, root)}

\* The path of the resolved leaf next before (after) position p, NoPath when none.
LeafBefore(root, p) ==
    LET before == {e \in LeavesOf(root) : ComesBefore(e.id, p)} IN
    IF before = {} THEN NoPath
    ELSE LeafPath(CHOOSE e \in before : \A o \in before : o = e \/ ComesBefore(o.id, e.id), root)

LeafAfter(root, p) ==
    LET after == {e \in LeavesOf(root) : ComesBefore(p, e.id)} IN
    IF after = {} THEN NoPath
    ELSE LeafPath(CHOOSE e \in after : \A o \in after : o = e \/ ComesBefore(e.id, o.id), root)

\* The items of sections that the provider holds: those of the index and those
\* it returned last.
SectionItems ==
    {allNotebooks[k] : k \in DOMAIN allNotebooks}
    \cup (IF ret.op = "getChildren" THEN {ret.items[i] : i \in 1..Len(ret.items)} ELSE {})

\* C8: previous/next follow adjacency in the book's depth-first sequence of
\* resolved leaves: the previous of a leaf is the resolved leaf next before it
\* in its own book (none for the first), its next the resolved leaf next after
\* it (none for the last), so that for adjacent leaves A then B, A.next = B and
\* B.previous = A; and a previous or next is never a file of another book.
C8_NavigationFollowsFlattenedLeaves ==
    \A x \in SectionItems :
        x.type \in {"Notebook", "Markdown"} =>
            /\ x.previousUri = LeafBefore(x.root, x.page.id)
            /\ x.nextUri = LeafAfter(x.root, x.page.id)
            /\ x.previousUri # NoPath => x.previousUri.dir[1] = x.root
            /\ x.nextUri # NoPath => x.nextUri.dir[1] = x.root

\* With both books listed, the index holds a notebook of the first book that is
\* nested in another entry and has a previous and a next leaf.
C8_Witness ==
    /\ Len(tableOfContentPaths) = 2
    /\ \E k \in DOMAIN allNotebooks :
          /\ allNotebooks[k].root = "book1"
          /\ Len(allNotebooks[k].page.id) = 2
          /\ allNotebooks[k].previousUri # NoPath
          /\ allNotebooks[k].nextUri # NoPath
          /\ allNotebooks[k].previousUri # allNotebooks[k].nextUri

----------------------------------------------------------------------------
(* getUntitledNotebookUri, findNextUntitledFileName, openNotebook *)

\* The largest number of openNotebookAsUntitled calls.
MaxOpens == 2

\* s.indexOf(sub), counted from 0; -1 when sub does not occur in s
StrIndexOf(s, sub) ==
    LET at == {i \in 1..(Len(s) - Len(sub) + 1) : SubSeq(s, i, i + Len(sub) - 1) = sub} IN
    IF at = {} THEN -1 ELSE (CHOOSE i \in at : \A j \in at : i <= j) - 1

\* `${baseName}${suffix}`: the base name with the suffix "-idx", none for 0
Title(baseName, idx) == [baseName EXCEPT !.idx = idx]

\* isEditorTitleFree(title): no open untitled editor has the title
isEditorTitleFree(title) == title \notin editorTitles

\* findNextUntitledFileName without the do-while test: the first title is taken.
findNextUntitledFileNameUnchecked(filePath) == Title(Basename(filePath), 0)

RECURSIVE NextFreeTitle(_, _)
\* The do-while loop of findNextUntitledFileName from idx on: it ends at the first
\* title that is free
NextFreeTitle(baseName, idx) ==
    IF isEditorTitleFree(Title(baseName, idx)) THEN Title(baseName, idx)
    ELSE NextFreeTitle(baseName, idx + 1)

\* findNextUntitledFileName(filePath)
findNextUntitledFileName(filePath) == NextFreeTitle(Basename(filePath), 0)

\* path.join(path.dirname(resource), title)
JoinDirname(res, title) == [title EXCEPT !.dir = res.dir]

\* getUntitledNotebookUri(resource): [uri, index], the Uri returned and the
\* notebook index after the call
getUntitledNotebookUri(res) ==
    LET untitledFileName ==
            IF StrIndexOf(platform, <<"w", "i", "n">>) > -1
            THEN UriUntitled(JoinDirname(res, findNextUntitledFileName(res)))
            ELSE UriUntitled(res)
        key == Basename(untitledFileName.fsPath)
    IN [uri |-> untitledFileName,
        index |-> IF /\ MapGet(allNotebooks, untitledFileName.fsPath) = NoItem
                     /\ MapGet(allNotebooks, key) = NoItem
                  THEN MapSet(allNotebooks, key, MapGet(allNotebooks, res))
                  ELSE allNotebooks]

\* The message openNotebook shows when the resource cannot be opened.
OpenNotebookError(res) == [msg |-> "Open file {0} failed: {1}", title |-> res]

\* openNotebook(resource): in untitled mode openNotebookAsUntitled names the
\* document and starts reading the resource; else the resource is opened as a
\* text document of the host, and a failure to open it is caught and shown
OpenNotebook(res) ==
    /\ Len(shown) < MaxShown
    /\ IF openAsUntitled
       THEN /\ Len(pendingOpens) < MaxOpens
            /\ LET r == getUntitledNotebookUri(res) IN
               /\ allNotebooks' = r.index
               /\ pendingOpens' = Append(pendingOpens,
                                         [resource |-> res, uri |-> r.uri, shown |-> FALSE,
                                          rejected |-> FALSE])
            /\ UNCHANGED shown
       ELSE /\ shown' = IF Exists(res) THEN shown ELSE Append(shown, OpenNotebookError(res))
            /\ UNCHANGED <<allNotebooks, pendingOpens>>
    /\ ret' = [op |-> "openNotebook", resource |-> res, rejected |-> FALSE]
    /\ UNCHANGED <<diskVars, tableOfContentPaths, errorMessage, openAsUntitled, bookPath,
                   platform, editorTitles, throttleVars, commands, otherVars>>

\* The callback of openTextDocument(resource).then in openNotebookAsUntitled,
\* run when the resource was read:
\* azdata.nb.showNotebookDocument(untitledFileName, ...) opens the editor of
\* that name (the title of an untitled editor is the base name of its path)
ShowNotebookDocument(i) ==
    /\ ~pendingOpens[i].shown
    /\ Exists(pendingOpens[i].resource)
    /\ pendingOpens' = [pendingOpens EXCEPT ![i].shown = TRUE]
    /\ editorTitles' = editorTitles \cup {Basename(pendingOpens[i].uri.fsPath)}
    /\ UNCHANGED <<diskVars, tableOfContentPaths, allNotebooks, errorMessage, openAsUntitled,
                   bookPath, shown, ret, platform, throttleVars, commands, otherVars>>

\* openTextDocument(resource) of openNotebookAsUntitled fails: the promise of
\* then is rejected, and nothing handles it
OpenTextDocumentFails(i) ==
    /\ ~pendingOpens[i].shown /\ ~pendingOpens[i].rejected
    /\ ~Exists(pendingOpens[i].resource)
    /\ pendingOpens' = [pendingOpens EXCEPT ![i].rejected = TRUE]
    /\ UNCHANGED <<diskVars, tableOfContentPaths, allNotebooks, errorMessage, openAsUntitled,
                   bookPath, shown, ret, platform, editorTitles, throttleVars, commands, otherVars>>

\* The user closes an untitled editor.
CloseEditor(title) ==
    /\ title \in editorTitles
    /\ editorTitles' = editorTitles \ {title}
    /\ UNCHANGED <<diskVars, tableOfContentPaths, allNotebooks, errorMessage, openAsUntitled,
                   bookPath, shown, ret, platform, pendingOpens, throttleVars, commands, otherVars>>
----------------------------------------------------------------------------
(* The provider in either mode on any platform, over two books that both have *)
(* a notebook named notebook1; the host opens notebooks, shows and closes     *)
(* their editors and asks for the navigation of their uris.                   *)

FirstBookDoc == ListVal(<<Entry(<<1>>, "notebook1"), Entry(<<2>>, "readme")>>)

OtherBookDoc == ListVal(<<Entry(<<1>>, "notebook1")>>)

\* A notebook that is in no book.
OutsidePath == [dir |-> <<"other">>, name |-> "notebook1", ext |-> "ipynb", idx |-> 0]

\* The notebooks the host opens.
NotebookResources ==
    {ContentPath("book1", "notebook1", "ipynb"), ContentPath("book1", "readme", "ipynb"),
     ContentPath("book2", "notebook1", "ipynb")}

InitUntitled ==
    /\ fsBooks = [b \in Books |->
                    IF b = "book1" THEN [config |-> "ok", tocState |-> "ok", toc |-> FirstBookDoc]
                    ELSE IF b = "book2" THEN [config |-> "ok", tocState |-> "ok", toc |-> OtherBookDoc]
                    ELSE BrokenBook]
    /\ files = NotebookResources
    /\ tableOfContentPaths = <<>>
    /\ allNotebooks = NoIndex
    /\ errorMessage = NoMessage
    /\ openAsUntitled \in BOOLEAN
    /\ bookPath = ""
    /\ shown = <<>>
    /\ ret = [op |-> "none"]
    /\ platform \in Platforms
    /\ editorTitles = {}
    /\ pendingOpens = <<>>
    /\ InitThrottleIdle

\* The uris the host asks the navigation of: the notebooks it opened from disk or
\* elsewhere, as files and as untitled documents, and the untitled documents
\* that openNotebookAsUntitled named.
NavigationUris ==
    {[scheme |-> s, fsPath |-> p] :
        s \in {"file", "untitled"},
        p \in {ContentPath("book1", "notebook1", "ipynb"), OutsidePath}}
    \cup {pendingOpens[i].uri : i \in 1..Len(pendingOpens)}

NextUntitled ==
    \/ Initialze
    \/ GetBooks
    \/ \E element \in HeldItems : GetChildren(element)
    \/ \E res \in NotebookResources : OpenNotebook(res)
    \/ \E i \in 1..Len(pendingOpens) : ShowNotebookDocument(i)
    \/ \E title \in editorTitles : CloseEditor(title)
    \/ \E uri \in NavigationUris : GetNavigation(uri)

SpecUntitled == InitUntitled /\ [][NextUntitled]_vars
\* The notebook index holds an item under the key (a key set to undefined holds none).
HoldsItem(key) == key \in DOMAIN allNotebooks /\ allNotebooks[key] # NoItem

\* The result of the last getNavigation has no previous and no next when it has
\* no navigation, and in untitled mode a previous or next has the scheme 'untitled'.
NavigationResultShape ==
    /\ ~ret.result.hasNavigation => ret.result.previous = NoUri /\ ret.result.next = NoUri
    /\ openAsUntitled =>
          /\ ret.result.previous # NoUri => ret.result.previous.scheme = "untitled"
          /\ ret.result.next # NoUri => ret.result.next.scheme = "untitled"

\* C9 as claimed: getNavigation(uri) has navigation exactly when the index holds
\* an entry for the key, the key being the base name of the path when the
\* provider is in untitled mode and the full path otherwise; without navigation
\* previous and next are undefined, and in untitled mode they carry the scheme
\* 'untitled'.
C9_KeyChosenByMode ==
    ret.op = "getNavigation" =>
        /\ ret.result.hasNavigation =
              HoldsItem(IF openAsUntitled THEN Basename(ret.uri.fsPath) ELSE ret.uri.fsPath)
        /\ NavigationResultShape

\* C9 as amended: getNavigation(uri) has navigation exactly when the index holds
\* an item for the key, the key being the base name of the path when the scheme
\* of the uri is 'untitled' and the full path otherwise, whatever the mode of the
\* provider; without navigation previous and next are undefined, and in untitled
\* mode they carry the scheme 'untitled'.
C9_KeyChosenByScheme ==
    ret.op = "getNavigation" =>
        /\ ret.result.hasNavigation =
              HoldsItem(IF ret.uri.scheme = "untitled" THEN Basename(ret.uri.fsPath)
                        ELSE ret.uri.fsPath)
        /\ NavigationResultShape

\* In untitled mode the navigation of an untitled document that openNotebook
\* named was found under its base name, with a next notebook of scheme 'untitled'.
C9_Witness ==
    /\ ret.op = "getNavigation"
    /\ openAsUntitled
    /\ \E i \in 1..Len(pendingOpens) : pendingOpens[i].uri = ret.uri
    /\ ret.result.hasNavigation
    /\ ret.result.next # NoUri /\ ret.result.next.scheme = "untitled"

\* The title with the suffix idx of the base name of the resource.
TitleOf(res, idx) == [dir |-> <<>>, name |-> res.name, ext |-> res.ext, idx |-> idx]

\* Calls i and j of openNotebookAsUntitled were for resources of the same base name.
SameBaseName(opens, i, j) ==
    /\ opens[i].resource.name = opens[j].resource.name
    /\ opens[i].resource.ext = opens[j].resource.ext

\* C10 as claimed: successive calls of getUntitledNotebookUri for resources of
\* the same base name return pairwise distinct names, and the suffix index of
\* the name returned grows strictly from one call to the next.
C10_SuccessiveNamesDistinct ==
    \A i, j \in 1..Len(pendingOpens) :
        (i < j /\ SameBaseName(pendingOpens, i, j)) =>
            /\ pendingOpens[i].uri # pendingOpens[j].uri
            /\ pendingOpens[i].uri.fsPath.idx < pendingOpens[j].uri.fsPath.idx

\* C10 as amended: on a platform whose name contains 'win' a call returns, in
\* the directory of the resource, the base name of the resource with the least
\* suffix index whose title is not the title of an open untitled editor, and
\* nothing is reserved: the index is greater than that of an earlier call for
\* the same base name exactly when the earlier title and every title of a lower
\* index are titles of open editors at the call. On any other platform a call
\* returns the path of the resource itself.
C10_LeastFreeTitle ==
    [][Len(pendingOpens') > Len(pendingOpens) =>
        LET n == Len(pendingOpens')
            call == pendingOpens'[n]
            name == call.uri.fsPath
        IN /\ call.uri.scheme = "untitled"
           /\ IF platform \in {Win32, Darwin}
              THEN /\ name.dir = call.resource.dir
                   /\ Basename(name) = TitleOf(call.resource, name.idx)
                   /\ Basename(name) \notin editorTitles
                   /\ \A k \in 0..(name.idx - 1) : TitleOf(call.resource, k) \in editorTitles
                   /\ \A i \in 1..(n - 1) :
                         SameBaseName(pendingOpens', i, n) =>
                            ((name.idx > pendingOpens[i].uri.fsPath.idx)
                               <=> \A k \in 0..pendingOpens[i].uri.fsPath.idx :
                                      TitleOf(call.resource, k) \in editorTitles)
              ELSE name = call.resource]_vars

\* On a platform whose name contains 'win', two calls for the same base name: the
\* editor of the first name was shown before the second call, which returned the
\* name with the suffix 1.
C10_Witness ==
    /\ Len(pendingOpens) = 2
    /\ SameBaseName(pendingOpens, 1, 2)
    /\ pendingOpens[1].resource # pendingOpens[2].resource
    /\ pendingOpens[1].uri.fsPath.idx = 0
    /\ pendingOpens[2].uri.fsPath.idx = 1
    /\ platform = Darwin

----------------------------------------------------------------------------
(* getParent *)

\* The extension of the name of a book's folder, the root of the book's items:
\* the folders of the model are named without one.
FolderExt == [b \in Books \cup {""} |-> ""]

\* The root of an item, a folder, as a path.
FolderPath(root) == [dir |-> <<>>, name |-> root, ext |-> FolderExt[root], idx |-> 0]

\* element.root.endsWith('.' + ext)
RootEndsWith(element, ext) == FolderPath(element.root).ext = ext

\* getParent(element): the item returned, NoItem for null and for undefined
getParent(element) ==
    IF RootEndsWith(element, "md")
    THEN LET parentPath == ContentPath(bookPath, "readme", "md") IN
         IF parentPath = FolderPath(element.root) THEN NoItem
         ELSE MapGet(allNotebooks, parentPath)
    ELSE IF RootEndsWith(element, "ipynb")
    THEN \* element.root.replace(path.basename(element.root), 'readme.md')
         MapGet(allNotebooks, [FolderPath(element.root) EXCEPT !.name = "readme", !.ext = "md"])
    ELSE NoItem

\* getParent(element)
GetParent(element) ==
    /\ ret' = [op |-> "getParent", element |-> element, result |-> getParent(element)]
    /\ UNCHANGED <<diskVars, tableOfContentPaths, allNotebooks, errorMessage, openAsUntitled,
                   bookPath, shown, untitledVars, throttleVars, commands, otherVars>>

(* One book, opened by openBook, in either mode: its toc.yml is any list of at *)
(* most MaxParentNodes entries and any of the content files exist; the host    *)
(* asks for the parent of the items it was given.                              *)

MaxParentNodes == 2

InitParent ==
    /\ \E d \in TocLists(MaxParentNodes, NavOpts, {"absent"}) :
         fsBooks = [b \in Books |->
                      IF b = "book1" THEN [config |-> "ok", tocState |-> "ok", toc |-> d]
                      ELSE BrokenBook]
    /\ files \in SUBSET ContentFiles("book1")
    /\ tableOfContentPaths = <<>>
    /\ allNotebooks = NoIndex
    /\ errorMessage = NoMessage
    /\ openAsUntitled \in BOOLEAN
    /\ bookPath = ""
    /\ shown = <<>>
    /\ ret = [op |-> "none"]
    /\ InitUntitledIdle
    /\ InitThrottleIdle

NextParent ==
    \/ OpenBook("book1")
    \/ GetBooks
    \/ \E element \in HeldItems : GetChildren(element)
    \/ \E element \in HeldItems : GetParent(element)

SpecParent == InitParent /\ [][NextParent]_vars

\* The item is the leaf of the book's content/readme.md.
IsReadmeLeaf(element) ==
    element.type = "Markdown" /\ element.page.url = "readme"

\* C11: getParent(node) returns, for a markdown leaf, the index entry of the
\* book's content/readme.md, or none when the leaf is that readme itself; for a
\* notebook leaf, the index entry under the leaf's path with its base name
\* replaced by readme.md; for any other node, none. In particular the parent of
\* a notebook or markdown leaf (other than the readme) of a book that has a
\* content/readme.md is the node of that readme.
C11_ParentIsReadme ==
    ret.op = "getParent" =>
        LET element == ret.element
            readme == ContentPath(element.root, "readme", "md")
        IN
        /\ element.type = "Markdown" =>
              ret.result = IF IsReadmeLeaf(element) THEN NoItem ELSE MapGet(allNotebooks, readme)
        /\ element.type = "Notebook" => ret.result = MapGet(allNotebooks, readme)
        /\ element.type \notin {"Markdown", "Notebook"} => ret.result = NoItem
        /\ (element.type \in {"Markdown", "Notebook"} /\ ~IsReadmeLeaf(element) /\ Exists(readme)) =>
              /\ ret.result # NoItem
              /\ ret.result.root = element.root
              /\ ret.result.page.url = "readme"

----------------------------------------------------------------------------
(* saveJupyterBooks *)

\* The largest number of bookTreeView.openBook commands waiting to run.
MaxCommands == 1

\* The content files under the folder root.
FilesOf(root) == {p \in files : p.dir # <<>> /\ p.dir[1] = root}

\* The folder root exists: it holds a _config.yml, a toc.yml or a content file.
FolderExists(root) == fsBooks[root] # BrokenBook \/ FilesOf(root) # {}

\* this._tableOfContentPaths.splice(index, 1)
Splice(seq, index) == SubSeq(seq, 1, index - 1) \o SubSeq(seq, index + 1, Len(seq))

\* The message of the error that ends saveJupyterBooks.
CopyFailed(root) == [msg |-> "fs.copy failed", title |-> BookTitle(root)]

\* saveJupyterBooks(): the user cancels the dialog (picked = "") or picks a
\* folder; destination, the folder of the book's name in the folder picked, is
\* any other folder of the model or, when the parent of the book is picked, the
\* book's own folder. The destination is removed and made anew, then the book
\* is copied; a copy of a folder that is missing, or onto itself, fails.
SaveJupyterBooks(destination) ==
    /\ Len(commands) < MaxCommands
    /\ IF bookPath = "" \/ destination = ""
       THEN /\ ret' = [op |-> "saveJupyterBooks", destination |-> destination, rejected |-> FALSE,
                       err |-> NoMessage]
            /\ UNCHANGED <<diskVars, tableOfContentPaths, commands, otherVars>>
       ELSE IF destination = bookPath \/ ~FolderExists(bookPath)
       THEN \* await fs.remove; await fs.mkdirSync; await fs.copy throws
            /\ fsBooks' = [fsBooks EXCEPT ![destination] = BrokenBook]
            /\ files' = files \ FilesOf(destination)
            /\ ret' = [op |-> "saveJupyterBooks", destination |-> destination, rejected |-> TRUE,
                       err |-> CopyFailed(bookPath)]
            /\ UNCHANGED <<tableOfContentPaths, commands, otherVars>>
       ELSE /\ fsBooks' = [fsBooks EXCEPT ![destination] = fsBooks[bookPath]]
            /\ files' = (files \ FilesOf(destination))
                           \cup {[p EXCEPT !.dir[1] = destination] : p \in FilesOf(bookPath)}
            /\ LET untitledBookIndex == IndexOf(tableOfContentPaths, TocPath(bookPath)) IN
               IF untitledBookIndex > 0 /\ MapSize(allNotebooks) > 0
               THEN /\ tableOfContentPaths' = Splice(tableOfContentPaths, untitledBookIndex)
                    /\ commands' = Append(commands, destination)
               ELSE UNCHANGED <<tableOfContentPaths, commands, otherVars>>
            /\ ret' = [op |-> "saveJupyterBooks", destination |-> destination, rejected |-> FALSE,
                       err |-> NoMessage]
    /\ UNCHANGED <<allNotebooks, errorMessage, openAsUntitled, bookPath, shown,
                   untitledVars, throttleVars, otherVars>>

(* One book and folders that are empty: the user opens the book, saves the     *)
(* book opened last to a folder, and the view lists and expands the books.     *)

\* The folders the user saves the book to: the book's own and another.
Destinations == {"book1", "book3"}

InitSave ==
    /\ fsBooks = [b \in Books |->
                    IF b = "book1" THEN [config |-> "ok", tocState |-> "ok", toc |-> FirstBookDoc]
                    ELSE BrokenBook]
    /\ files = {ContentPath("book1", "notebook1", "ipynb"), ContentPath("book1", "readme", "ipynb")}
    /\ tableOfContentPaths = <<>>
    /\ allNotebooks = NoIndex
    /\ errorMessage = NoMessage
    /\ openAsUntitled \in BOOLEAN
    /\ bookPath = ""
    /\ shown = <<>>
    /\ ret = [op |-> "none"]
    /\ InitUntitledIdle
    /\ InitThrottleIdle

NextSave ==
    \/ OpenBook("book1")
    \/ OpenBookCommand
    \/ GetBooks
    \/ \E element \in HeldItems : GetChildren(element)
    \/ \E destination \in Destinations \cup {""} : SaveJupyterBooks(destination)

SpecSave == InitSave /\ [][NextSave]_vars

\* C12: every entry of the notebook index belongs to a book whose toc.yml path
\* is in the TOC-path list: when saveJupyterBooks removes the path of a book
\* from the list, the index entries of the book are removed as well.
C12_IndexEntriesOfListedBooks ==
    \A key \in DOMAIN allNotebooks :
        allNotebooks[key] # NoItem =>
            Contains(tableOfContentPaths, TocPath(allNotebooks[key].root))

----------------------------------------------------------------------------
(* The user's actions on one book in either mode, one of whose notebooks is   *)
(* named in the view but is no longer on the disk.                            *)

\* A notebook that was deleted after the view listed it.
DeletedNotebook == ContentPath("book1", "notebook1", "ipynb")

InitActions ==
    /\ fsBooks = [b \in Books |->
                    IF b = "book1" THEN [config |-> "ok", tocState |-> "ok", toc |-> FirstBookDoc]
                    ELSE BrokenBook]
    /\ files = {ContentPath("book1", "readme", "ipynb")}
    /\ tableOfContentPaths = <<>>
    /\ allNotebooks = NoIndex
    /\ errorMessage = NoMessage
    /\ openAsUntitled \in BOOLEAN
    /\ bookPath = ""
    /\ shown = <<>>
    /\ ret = [op |-> "none"]
    /\ platform \in Platforms
    /\ editorTitles = {}
    /\ pendingOpens = <<>>
    /\ InitThrottleIdle

NextActions ==
    \/ OpenBook("book1")
    \/ OpenBookCommand
    \/ \E res \in {DeletedNotebook, ContentPath("book1", "readme", "ipynb")} : OpenNotebook(res)
    \/ \E i \in 1..Len(pendingOpens) : ShowNotebookDocument(i)
    \/ \E i \in 1..Len(pendingOpens) : OpenTextDocumentFails(i)
    \/ \E destination \in Destinations \cup {""} : SaveJupyterBooks(destination)

SpecActions == InitActions /\ [][NextActions]_vars

\* A message that names the resource was shown.
ShownFor(res) == \E i \in 1..Len(shown) : shown[i].title = res

\* C13: a failure of the host or filesystem operation under a user action is
\* caught inside the action: the action's promise never rejects and an error
\* message that names the resource is shown. Stated for openNotebook in both
\* modes (the notebook cannot be read) and for saveJupyterBooks (the copy fails).
C13_FailuresCaughtAndShown ==
    /\ ret.op = "openNotebook" =>
          /\ ~ret.rejected
          /\ (~openAsUntitled /\ ~Exists(ret.resource)) => ShownFor(ret.resource)
    /\ \A i \in 1..Len(pendingOpens) :
          pendingOpens[i].rejected => ShownFor(pendingOpens[i].resource)
    /\ ret.op = "saveJupyterBooks" =>
          /\ ~ret.rejected
          /\ ret.err # NoMessage => ShownFor(BookTitle(bookPath))

----------------------------------------------------------------------------
(* ProjectsController.createNewProject                                        *)
(* A string is a sequence of atoms: single characters, and the extension       *)
(* '.sqlproj' in lower and in upper case as one atom each.                     *)

\* The largest number of async calls made.
MaxTasks == 2

\* constants.sqlprojExtension
sqlprojExtension == ".sqlproj"

\* str.toLowerCase()
ToLowerCase(str) == [i \in 1..Len(str) |-> IF str[i] = ".SQLPROJ" THEN ".sqlproj" ELSE str[i]]

\* str.endsWith(atom)
EndsWith(str, atom) == Len(str) > 0 /\ str[Len(str)] = atom

\* str.includes(sub)
Includes(str, sub) == StrIndexOf(str, sub) > -1

\* No projectGuid argument.
NoGuid == [given |-> FALSE, uuid |-> FALSE, text |-> <<>>]

\* UUID.generateUuid().toUpperCase() of call number n: a new UUID
GenerateUuid(n) == [given |-> TRUE, uuid |-> TRUE, text |-> <<"uuid">> \o [i \in 1..n |-> "-"]]

\* The errors createNewProject throws.
InvalidGuid(guid) == [msg |-> "Specified GUID is invalid: '{0}'", title |-> guid.text]

InvalidMacro(value) == [msg |-> "Macro value {0} is invalid because it contains @@", title |-> value]

ProjectAlreadyExists(fileName) == [msg |-> "A project named {0} already exists", title |-> fileName]

\* macroExpansion without the test for the macro indicator.
macroExpansionUnchecked(name, guid) ==
    Returned([PROJECT_NAME |-> name, PROJECT_GUID |-> guid.text])

\* macroExpansion(templates.newSqlProjectTemplate, macroDict): the macros are
\* tested and replaced in the order PROJECT_NAME, PROJECT_GUID; the template
\* expanded is known by the two values put into it
macroExpansion(name, guid) ==
    IF Includes(name, <<"@", "@">>) THEN Thrown(InvalidMacro(name))
    ELSE IF Includes(guid.text, <<"@", "@">>) THEN Thrown(InvalidMacro(guid.text))
    ELSE Returned([PROJECT_NAME |-> name, PROJECT_GUID |-> guid.text])

\* The part of createNewProject(newProjName, folderUri, projectGuid) up to its
\* first await: the outcome of the validation, the contents and the file name
\* (the path in the folder, which is the same for all calls)
createNewProjectStart(newProjName, projectGuid, n) ==
    IF projectGuid.given /\ ~projectGuid.uuid
    THEN [err |-> InvalidGuid(projectGuid), contents |-> <<>>, path |-> <<>>]
    ELSE LET expanded == macroExpansion(newProjName,
                                        IF projectGuid.given THEN projectGuid ELSE GenerateUuid(n))
             newProjFileName ==
                 IF ~EndsWith(ToLowerCase(newProjName), sqlprojExtension)
                 THEN Append(newProjName, sqlprojExtension)
                 ELSE newProjName
         IN IF ~expanded.ok THEN [err |-> expanded.err, contents |-> <<>>, path |-> <<>>]
            ELSE [err |-> NoMessage, contents |-> expanded.val, path |-> newProjFileName]

\* The tasks that have completed.
Completed == {i \in 1..Len(tasks) : tasks[i].pc \in {"returned", "rejected"}}

\* createNewProject(newProjName, folderUri, projectGuid) is called and runs up to
\* await fs.access(newProjFilePath), or fails the validation
createNewProjectCall(newProjName, projectGuid) ==
    LET r == createNewProjectStart(newProjName, projectGuid, Len(tasks) + 1) IN
    [op |-> "createNewProject", name |-> newProjName, guid |-> projectGuid,
     pc |-> IF r.err = NoMessage THEN "access" ELSE "rejected",
     err |-> r.err, path |-> r.path, contents |-> r.contents,
     wrote |-> FALSE, after |-> Completed]

CreateNewProject(newProjName, projectGuid) ==
    /\ Len(tasks) < MaxTasks
    /\ tasks' = Append(tasks, createNewProjectCall(newProjName, projectGuid))
    /\ UNCHANGED <<bookVars, projectVars, arcVars>>

\* fs.access(path) without a look at the disk: the file is taken not to exist.
AccessNever(path) == FALSE

\* await fs.access(path) succeeds: the file exists
Access(path) == path \in DOMAIN projFs

\* The folder the projects are created in, as a key of the disk.
ProjectFolder == <<"/">>

\* The call goes on after await fs.access: it throws projectAlreadyExists when
\* the file exists, else goes on to fs.mkdir
CreateAccess(i) ==
    /\ tasks[i].op = "createNewProject" /\ tasks[i].pc = "access"
    /\ tasks' = IF Access(tasks[i].path)
                THEN [tasks EXCEPT ![i].pc = "rejected",
                                   ![i].err = ProjectAlreadyExists(tasks[i].path)]
                ELSE [tasks EXCEPT ![i].pc = "mkdir"]
    /\ UNCHANGED <<bookVars, projectVars, arcVars>>

\* await fs.mkdir(path.dirname(newProjFilePath), { recursive: true })
CreateMkdir(i) ==
    /\ tasks[i].op = "createNewProject" /\ tasks[i].pc = "mkdir"
    /\ projFs' = MapSet(projFs, ProjectFolder, "folder")
    /\ tasks' = [tasks EXCEPT ![i].pc = "writeFile"]
    /\ UNCHANGED <<bookVars, projects, arcVars>>

\* await fs.writeFile(newProjFilePath, newProjFileContents); return newProjFilePath
CreateWriteFile(i) ==
    /\ tasks[i].op = "createNewProject" /\ tasks[i].pc = "writeFile"
    /\ projFs' = MapSet(projFs, tasks[i].path, tasks[i].contents)
    /\ tasks' = [tasks EXCEPT ![i].pc = "returned", ![i].wrote = TRUE]
    /\ UNCHANGED <<bookVars, projects, arcVars>>

\* The book provider with nothing loaded.
InitProviderIdle ==
    /\ fsBooks = [b \in Books |-> BrokenBook]
    /\ files = {}
    /\ tableOfContentPaths = <<>>
    /\ allNotebooks = NoIndex
    /\ errorMessage = NoMessage
    /\ openAsUntitled = FALSE
    /\ bookPath = ""
    /\ shown = <<>>
    /\ ret = [op |-> "none"]
    /\ InitUntitledIdle
    /\ InitTimerIdle

(* createNewProject called with any of the names and GUIDs below, the calls    *)
(* interleaving at their awaits, on a disk without projects.                   *)

ProjectNames == {<<"p">>, <<"p", ".sqlproj">>, <<"p", ".SQLPROJ">>, <<"p", "@", "@">>}

ProjectGuids == {NoGuid,
                 [given |-> TRUE, uuid |-> TRUE, text |-> <<"g">>],
                 [given |-> TRUE, uuid |-> FALSE, text |-> <<"x">>]}

NextCreate ==
    \/ \E name \in ProjectNames, guid \in ProjectGuids : CreateNewProject(name, guid)
    \/ \E i \in 1..Len(tasks) : CreateAccess(i)
    \/ \E i \in 1..Len(tasks) : CreateMkdir(i)
    \/ \E i \in 1..Len(tasks) : CreateWriteFile(i)

InitCreate == InitProviderIdle /\ InitOthersIdle

SpecCreate == InitCreate /\ [][NextCreate]_vars

\* The arguments of the call fail the validation: a GUID that is given and is no
\* UUID, or a name or GUID that contains '@@'.
FailsValidation(task) ==
    \/ task.guid.given /\ ~task.guid.uuid
    \/ \E k \in 1..(Len(task.name) - 1) : task.name[k] = "@" /\ task.name[k + 1] = "@"
    \/ \E k \in 1..(Len(task.guid.text) - 1) : task.guid.text[k] = "@" /\ task.guid.text[k + 1] = "@"

\* C14: createNewProject changes nothing on the disk when the validation fails:
\* with a projectGuid that is no UUID, or a name or GUID that contains '@@', the
\* call fails with an error at once, the disk is the same after the call, and
\* no later mkdir or writeFile is a step of that call.
C14_NoMutationWhenValidationFails ==
    [][/\ \A i \in 1..Len(tasks') :
             (tasks'[i].op = "createNewProject" /\ FailsValidation(tasks'[i])) =>
                 /\ tasks'[i].pc = "rejected" /\ ~tasks'[i].wrote
                 /\ tasks'[i].err \in {InvalidGuid(tasks'[i].guid), InvalidMacro(tasks'[i].name)}
       /\ Len(tasks') > Len(tasks) /\ FailsValidation(tasks'[Len(tasks')]) => projFs' = projFs
       /\ projFs' # projFs =>
             \E i \in 1..Len(tasks) : tasks'[i].pc # tasks[i].pc /\ ~FailsValidation(tasks[i])]_vars

\* A call failed for its GUID and a call failed for '@@' in its name, and the
\* disk holds nothing.
C14_Witness ==
    /\ Len(tasks) = 2
    /\ tasks[1].err = InvalidGuid(tasks[1].guid)
    /\ tasks[2].err = InvalidMacro(tasks[2].name)
    /\ projFs = NoFiles

\* The calls that wrote the file at path.
Writers(path) ==
    {i \in 1..Len(tasks) : tasks[i].op = "createNewProject" /\ tasks[i].wrote /\ tasks[i].path = path}

\* C15: createNewProject never overwrites a project file when the calls run one
\* at a time: of two calls that both wrote the same path, the later was made
\* before the earlier completed; a call made after a call that wrote its path
\* completed fails with projectAlreadyExists and writes nothing, and the file
\* of a path written once holds what that call wrote. (That the check and the
\* write are not atomic, so that two interleaved calls both write, is the
\* state of C15_Witness.)
C15_NoOverwriteOneAtATime ==
    /\ \A i, j \in 1..Len(tasks) :
          (i < j /\ tasks[j].op = "createNewProject" /\ i \in Writers(tasks[j].path)) =>
              /\ tasks[j].wrote => i \notin tasks[j].after
              /\ (i \in tasks[j].after /\ j \in Completed) =>
                    /\ tasks[j].pc = "rejected"
                    /\ tasks[j].err = ProjectAlreadyExists(tasks[j].path)
    /\ \A path \in DOMAIN projFs \ {ProjectFolder} :
          /\ Writers(path) # {}
          /\ \E i \in Writers(path) : projFs[path] = tasks[i].contents

\* Two calls for the same path, both past the check before either wrote: both
\* wrote, and the file holds what the call made first wrote, which wrote last.
C15_Witness ==
    /\ Len(tasks) = 2
    /\ Writers(tasks[1].path) = {1, 2}
    /\ tasks[1].contents # tasks[2].contents
    /\ tasks[1].name # tasks[2].name
    /\ projFs[tasks[1].path] = tasks[1].contents

----------------------------------------------------------------------------
(* ProjectsController.openProject, closeProject *)

\* The errors that end openProject.
ReadProjFileError(path) == [msg |-> "readProjFile failed", title |-> path]

LoadDataSourcesError(path) == [msg |-> "dataSources.load failed", title |-> path]

\* The project of the list whose projectFilePath is path, NoProject when none:
\* the loop at the start of openProject
NoProject == [id |-> 0, projectFilePath |-> <<>>]

FindProject(list, path) ==
    IF \E k \in 1..Len(list) : list[k].projectFilePath = path
    THEN list[CHOOSE k \in 1..Len(list) :
                 /\ list[k].projectFilePath = path
                 /\ \A l \in 1..(k - 1) : list[l].projectFilePath # path]
    ELSE NoProject

\* openProject(projectFile) is called: it returns the project that is open for
\* the file, or makes a new Project (known by the number of the call) and runs
\* up to await newProject.readProjFile()
openProjectCall(path) ==
    LET proj == FindProject(projects, path)
        n == Len(tasks) + 1
    IN IF proj # NoProject
       THEN [op |-> "openProject", path |-> path, pc |-> "returned",
             project |-> proj, err |-> NoMessage, before |-> projects]
       ELSE [op |-> "openProject", path |-> path, pc |-> "readProjFile",
             project |-> [id |-> n, projectFilePath |-> path],
             err |-> NoMessage, before |-> projects]

OpenProject(path) ==
    /\ Len(tasks) < MaxTasks
    /\ tasks' = Append(tasks, openProjectCall(path))
    /\ UNCHANGED <<bookVars, projectVars, arcVars>>

\* The call goes on after await newProject.readProjFile(): the file was read
\* and the project is pushed, or the read failed and the error is thrown
OpenReadProjFile(i, readable) ==
    /\ tasks[i].op = "openProject" /\ tasks[i].pc = "readProjFile"
    /\ IF tasks[i].path \in DOMAIN projFs /\ readable
       THEN /\ projects' = Append(projects, tasks[i].project)
            /\ tasks' = [tasks EXCEPT ![i].pc = "load"]
       ELSE /\ tasks' = [tasks EXCEPT ![i].pc = "rejected",
                                      ![i].err = ReadProjFileError(tasks[i].path)]
            /\ UNCHANGED projects
    /\ UNCHANGED <<bookVars, projFs, arcVars>>

\* The call goes on after await dataSources.load(dataSourcesFilePath): the data
\* sources were loaded, or there is no datasources.json (NoDataSourcesFileError,
\* swallowed), or the load failed otherwise and the error is thrown again
OpenLoadDataSources(i, outcome) ==
    /\ tasks[i].op = "openProject" /\ tasks[i].pc = "load"
    /\ tasks' = IF outcome \in {"loaded", "NoDataSourcesFileError"}
                THEN [tasks EXCEPT ![i].pc = "returned"]
                ELSE [tasks EXCEPT ![i].pc = "rejected",
                                   ![i].err = LoadDataSourcesError(tasks[i].path)]
    /\ UNCHANGED <<bookVars, projectVars, arcVars>>

\* closeProject(treeNode): the project of the node leaves the list
CloseProject(project) ==
    /\ projects' = SelectSeq(projects, LAMBDA e : e # project)
    /\ UNCHANGED <<bookVars, projFs, arcVars, tasks>>

(* Two project files on the disk; openProject calls for them interleave at    *)
(* their awaits, and open projects are closed.                                *)

ProjectFiles == {<<"p", ".sqlproj">>, <<"q", ".sqlproj">>}

InitOpen ==
    /\ InitProviderIdle
    /\ projFs = [path \in ProjectFiles |-> [PROJECT_NAME |-> <<Head(path)>>, PROJECT_GUID |-> <<"g">>]]
    /\ projects = <<>> /\ controllerNodes = <<>> /\ globalState = <<>>
    /\ tasks = <<>>

NextOpen ==
    \/ \E path \in ProjectFiles : OpenProject(path)
    \/ \E i \in 1..Len(tasks), readable \in BOOLEAN : OpenReadProjFile(i, readable)
    \/ \E i \in 1..Len(tasks), outcome \in {"loaded", "NoDataSourcesFileError", "error"} :
          OpenLoadDataSources(i, outcome)
    \/ \E k \in 1..Len(projects) : CloseProject(projects[k])

SpecOpen == InitOpen /\ [][NextOpen]_vars

\* C18: projects never holds two projects of the same projectFilePath, whatever
\* the openProject and closeProject calls and however they interleave; an
\* openProject for a file that is open returns the project of the list and
\* adds nothing.
C18_ProjectsAreUnique ==
    /\ \A k, l \in 1..Len(projects) :
          projects[k].projectFilePath = projects[l].projectFilePath => k = l
    /\ \A i \in 1..Len(tasks) :
          (tasks[i].op = "openProject" /\ FindProject(tasks[i].before, tasks[i].path) # NoProject) =>
              /\ tasks[i].pc = "returned"
              /\ tasks[i].project = FindProject(tasks[i].before, tasks[i].path)

\* C19: openProject is all-or-nothing for the projects list: a project is in the
\* list only if the openProject call that made it has not failed, so that when
\* the call fails the list is as it was before the call.
C19_OpenProjectAllOrNothing ==
    \A i \in 1..Len(tasks) :
        (tasks[i].op = "openProject" /\ tasks[i].pc = "rejected") =>
            \A k \in 1..Len(projects) : projects[k].id # i

----------------------------------------------------------------------------
(* AzureArcTreeDataProvider: addOrUpdateController, removeController,          *)
(* saveControllers. A controller node is a record [id, info]: id its identity, *)
(* info the ControllerInfo of its model.                                       *)

\* The ControllerInfo values of the models passed in.
ControllerInfos == [url : {"url1", "url2"}, rememberPassword : BOOLEAN]

\* model.equals(node.model): the two models are of the same controller
ModelEquals(info, other) == info.url = other.url

\* saveControllers that stores nothing.
saveControllersNothing(nodes) == globalState

\* saveControllers(): the value globalState.update(mementoToken, ...) is called
\* with; the memento holds it from the call on
saveControllers(nodes) == [k \in 1..Len(nodes) |-> nodes[k].info]

\* loadSavedControllers(): the nodes made of the mementos by the constructor
LoadSavedControllers(mementos) == [k \in 1..Len(mementos) |-> [id |-> 0 - k, info |-> mementos[k]]]

\* addOrUpdateController(model, password) is called: the node of the model gets
\* the info of the model, or a new node is pushed; the call then awaits
\* updatePassword
AddOrUpdateController(info) ==
    /\ Len(tasks) < MaxTasks
    /\ LET found == {k \in 1..Len(controllerNodes) : ModelEquals(info, controllerNodes[k].info)} IN
       controllerNodes' =
          IF found # {}
          THEN [controllerNodes EXCEPT ![CHOOSE k \in found : \A l \in found : k <= l].info = info]
          ELSE Append(controllerNodes, [id |-> Len(tasks) + 1, info |-> info])
    /\ tasks' = Append(tasks, [op |-> "addOrUpdateController", info |-> info, pc |-> "updatePassword"])
    /\ UNCHANGED <<bookVars, projectVars, globalState>>

\* The call goes on after await this.updatePassword(model, password): the tree
\* is refreshed and saveControllers() stores the infos of the nodes
AddSaveControllers(i) ==
    /\ tasks[i].op = "addOrUpdateController" /\ tasks[i].pc = "updatePassword"
    /\ globalState' = saveControllers(controllerNodes)
    /\ tasks' = [tasks EXCEPT ![i].pc = "saveControllers"]
    /\ UNCHANGED <<bookVars, projectVars, controllerNodes>>

\* removeController(controllerNode) is called: the node leaves the list and
\* saveControllers() stores the infos of the nodes left
RemoveController(controllerNode) ==
    /\ Len(tasks) < MaxTasks
    /\ controllerNodes' = SelectSeq(controllerNodes, LAMBDA node : node # controllerNode)
    /\ globalState' = saveControllers(controllerNodes')
    /\ tasks' = Append(tasks, [op |-> "removeController", info |-> controllerNode.info,
                               pc |-> "saveControllers"])
    /\ UNCHANGED <<bookVars, projectVars>>

\* await this.saveControllers() is over: the call returns
SaveControllersDone(i) ==
    /\ tasks[i].op \in {"addOrUpdateController", "removeController"}
    /\ tasks[i].pc = "saveControllers"
    /\ tasks' = [tasks EXCEPT ![i].pc = "returned"]
    /\ UNCHANGED <<bookVars, projectVars, arcVars>>

(* The provider constructed over any saved list of at most one controller;     *)
(* controllers are added, updated and removed, the calls interleaving.         *)

InitArc ==
    /\ InitProviderIdle
    /\ projFs = NoFiles /\ projects = <<>>
    /\ globalState \in {<<>>} \cup {<<info>> : info \in ControllerInfos}
    /\ controllerNodes = LoadSavedControllers(globalState)
    /\ tasks = <<>>

NextArc ==
    \/ \E info \in ControllerInfos : AddOrUpdateController(info)
    \/ \E i \in 1..Len(tasks) : AddSaveControllers(i)
    \/ \E k \in 1..Len(controllerNodes) : RemoveController(controllerNodes[k])
    \/ \E i \in 1..Len(tasks) : SaveControllersDone(i)

SpecArc == InitArc /\ [][NextArc]_vars

----------------------------------------------------------------------------
\* The number of times x is an element of seq.
Count(seq, x) == Cardinality({k \in 1..Len(seq) : seq[k] = x})

\* C17: openBook does not scan a book again that is open: after any openBook
\* calls for the same book path the TOC-path list holds the book's
\* _data/toc.yml path at most once, and the list of books returned holds the
\* book at most once.
C17_OpenBookAddsPathOnce ==
    /\ \A b \in Books : Count(tableOfContentPaths, TocPath(b)) <= 1
    /\ ret.op \in {"getBooks", "openBook"} =>
          \A k, l \in 1..Len(ret.books) : ret.books[k].root = ret.books[l].root => k = l

\* C20: the debounce of openMarkdown never starves a request: for every call
\* that no call for another resource follows, the preview of the resource runs
\* at or after the time of the call, at the latest when the window of 300 units
\* after the call is over; so also for a request for the same resource made
\* after the action of the timer has run.
C20_NoRequestStarves ==
    \A k \in 1..Len(calls) :
        (/\ \A j \in (k + 1)..Len(calls) : calls[j].res = calls[k].res
         /\ now >= calls[k].at + ThrottleDelay
         /\ ~TimerDue) =>
            \E i \in 1..Len(previews) :
                previews[i].res = calls[k].res /\ previews[i].at >= calls[k].at

----------------------------------------------------------------------------
(* ProjectsController.generateList                                            *)
(* A path is the sequence of its components, a component the sequence of the   *)
(* atoms of its name (createNewProject's strings); path + '.sql' appends the   *)
(* atom '.sql' to the last component. A disk maps the paths that exist to      *)
(* "folder", to "socket" (neither a file nor a directory), or to the contents  *)
(* of a file.                                                                  *)

\* constants.sqlFileExtension
sqlFileExtension == ".sql"

\* constants.cannotResolvePath(path)
CannotResolvePath(path) == [msg |-> "Cannot resolve path {0}", title |-> path]

\* utils.exists(path)
PathExists(disk, path) == path \in DOMAIN disk

\* absolutePath + constants.sqlFileExtension
AddSqlFileExtension(path) ==
    IF path = <<>> THEN <<<<sqlFileExtension>>>>
    ELSE [path EXCEPT ![Len(path)] = Append(@, sqlFileExtension)]

\* path.join(filepath, f)
Join(filepath, f) == Append(filepath, f)

\* (await fs.stat(filepath)).isDirectory(), .isFile()
IsDirectory(disk, filepath) == disk[filepath] = "folder"

IsFile(disk, filepath) == disk[filepath] \notin {"folder", "socket"}

\* fs.readdir(filepath) that finds nothing in any folder.
ReaddirNothing(disk, filepath, order) == <<>>

\* await fs.readdir(filepath): the names in the folder, in the order the host
\* gives them (order lists every name)
Readdir(disk, filepath, order) ==
    SelectSeq(order, LAMBDA f : Join(filepath, f) \in DOMAIN disk)

\* The part of generateList before the loop: the path the walk starts at, and
\* whether there is one
generateListStart(disk, absolutePath) ==
    IF ~PathExists(disk, absolutePath)
    THEN IF PathExists(disk, AddSqlFileExtension(absolutePath))
         THEN [resolved |-> TRUE, path |-> AddSqlFileExtension(absolutePath)]
         ELSE [resolved |-> FALSE, path |-> absolutePath]
    ELSE [resolved |-> TRUE, path |-> absolutePath]

\* One pass of the do-while loop over the stack (the local files)
generateListStep(disk, stack, fileFolderList, order) ==
    LET filepath == stack[Len(stack)]
        popped == SubSeq(stack, 1, Len(stack) - 1)
    IN IF filepath = <<>> THEN [files |-> popped, fileFolderList |-> fileFolderList]
       ELSE IF IsDirectory(disk, filepath)
       THEN LET names == Readdir(disk, filepath, order) IN
            [files |-> popped \o [k \in 1..Len(names) |-> Join(filepath, names[k])],
             fileFolderList |-> Append(fileFolderList, filepath)]
       ELSE IF IsFile(disk, filepath)
       THEN [files |-> popped, fileFolderList |-> Append(fileFolderList, filepath)]
       ELSE [files |-> popped, fileFolderList |-> fileFolderList]

\* generateList(absolutePath) is called: with no path to start at the error is
\* shown and the empty list returned; else the loop starts with the path on the stack
GenerateList(absolutePath, order) ==
    /\ tasks = <<>>
    /\ LET start == generateListStart(projFs, absolutePath) IN
       /\ tasks' = Append(tasks,
                     [op |-> "generateList", absolutePath |-> absolutePath, order |-> order,
                      pc |-> IF start.resolved THEN "loop" ELSE "returned",
                      files |-> IF start.resolved THEN <<start.path>> ELSE <<>>,
                      fileFolderList |-> <<>>,
                      err |-> IF start.resolved THEN NoMessage ELSE CannotResolvePath(absolutePath)])
       /\ shown' = IF start.resolved THEN shown ELSE Append(shown, CannotResolvePath(absolutePath))
    /\ UNCHANGED <<bookVarsButShown, projectVars, arcVars>>

\* One pass of the loop of call i; the call returns the list when the stack is empty
GenerateListStep(i) ==
    /\ tasks[i].op = "generateList" /\ tasks[i].pc = "loop"
    /\ LET next == generateListStep(projFs, tasks[i].files, tasks[i].fileFolderList, tasks[i].order) IN
       tasks' = [tasks EXCEPT ![i].files = next.files,
                              ![i].fileFolderList = next.fileFolderList,
                              ![i].pc = IF next.files # <<>> THEN "loop" ELSE "returned"]
    /\ UNCHANGED <<bookVars, projectVars, arcVars>>

(* generateList on any disk of at most MaxEntries files and folders, called     *)
(* for a path that may exist, exist with '.sql' only, or not at all; the host   *)
(* lists a folder in either order.                                              *)

\* The largest number of paths that exist on the disk.
MaxEntries == 3

EntryNames == {<<"a">>, <<"b">>}

\* The paths a disk may hold: a or a.sql, and two levels below them.
ListPaths ==
    LET tops == {<<<<"a">>>>, <<<<"a", sqlFileExtension>>>>}
        below(ps) == {Join(p, f) : p \in ps, f \in EntryNames}
    IN tops \cup below(tops) \cup below(below(tops))

RECURSIVE SubsetsUpTo(_, _)
SubsetsUpTo(S, k) ==
    IF k = 0 THEN {{}}
    ELSE LET smaller == SubsetsUpTo(S, k - 1) IN
         smaller \cup {s \cup {x} : s \in smaller, x \in S}

\* path.dirname(path)
Dirname(path) == SubSeq(path, 1, Len(path) - 1)

\* The disks: every path that exists below the top lies in a folder that exists.
ListDisks ==
    {disk \in UNION {[ps -> {"folder", "socket", "sql text"}] : ps \in SubsetsUpTo(ListPaths, MaxEntries)} :
        \A p \in DOMAIN disk :
            Len(p) > 1 => Dirname(p) \in DOMAIN disk /\ disk[Dirname(p)] = "folder"}

AbsolutePaths == {<<<<"a">>>>, <<<<"a">>, <<"a">>>>, <<<<"b">>>>}

ReaddirOrders == {<<<<"a">>, <<"b">>>>, <<<<"b">>, <<"a">>>>}

InitList ==
    /\ InitProviderIdle
    /\ projFs \in ListDisks
    /\ projects = <<>> /\ controllerNodes = <<>> /\ globalState = <<>>
    /\ tasks = <<>>

NextList ==
    \/ \E absolutePath \in AbsolutePaths, order \in ReaddirOrders : GenerateList(absolutePath, order)
    \/ \E i \in 1..Len(tasks) : GenerateListStep(i)

\* The loop of a call goes on: a pass that can be made is made.
SpecList == InitList /\ [][NextList]_vars /\ WF_vars(\E i \in 1..Len(tasks) : GenerateListStep(i))

\* path lies beneath start, or is start.
IsBeneathOrAt(path, start) ==
    Len(path) >= Len(start) /\ SubSeq(path, 1, Len(start)) = start

\* The files and folders of the disk at and beneath start.
ListedBy(disk, start) ==
    {path \in DOMAIN disk : IsBeneathOrAt(path, start) /\ (IsDirectory(disk, path) \/ IsFile(disk, path))}

\* What a call that has returned has returned, by the three cases of its path.
GenerateListResult(task) ==
    LET list == task.fileFolderList
        absolutePath == task.absolutePath
        withSql == AddSqlFileExtension(absolutePath)
        start == IF PathExists(projFs, absolutePath) THEN absolutePath ELSE withSql
    IN IF PathExists(projFs, absolutePath) \/ PathExists(projFs, withSql)
       THEN /\ {list[k] : k \in 1..Len(list)} = ListedBy(projFs, start)
            /\ \A k, l \in 1..Len(list) : list[k] = list[l] => k = l
            /\ \A k, l \in 1..Len(list) :
                  (k # l /\ IsBeneathOrAt(list[l], list[k])) => k < l
            /\ (~PathExists(projFs, absolutePath) /\ IsFile(projFs, withSql)) => list = <<withSql>>
            /\ task.err = NoMessage /\ shown = <<>>
       ELSE /\ list = <<>>
            /\ shown = <<CannotResolvePath(absolutePath)>>

\* C22: generateList(absolutePath) terminates on every finite directory tree and
\* returns a flat list that holds the start path and every file and folder
\* beneath it (what is neither a file nor a directory is not listed), each
\* exactly once, every folder before any of its descendants; when absolutePath
\* does not exist but the file absolutePath + '.sql' does, the list is exactly
\* that .sql file; when neither exists, an error message is shown and the empty
\* list is returned.
C22_GenerateListWalksTheTree ==
    /\ [](\A i \in 1..Len(tasks) :
             (tasks[i].op = "generateList" /\ tasks[i].pc = "returned") => GenerateListResult(tasks[i]))
    /\ (\E i \in 1..Len(tasks) : tasks[i].pc = "loop")
          ~> (\A i \in 1..Len(tasks) : tasks[i].pc = "returned")

\* A call has returned a folder, a folder in it and a file in that folder.
C22_Witness ==
    \E i \in 1..Len(tasks) :
        /\ tasks[i].op = "generateList" /\ tasks[i].pc = "returned"
        /\ Len(tasks[i].fileFolderList) > 2
        /\ \E k, l \in 1..Len(tasks[i].fileFolderList) :
              LET list == tasks[i].fileFolderList IN
              /\ k < l /\ Len(list[k]) > Len(list[1]) /\ IsDirectory(projFs, list[k])
              /\ Dirname(list[l]) = list[k] /\ IsFile(projFs, list[l])

----------------------------------------------------------------------------
(* ProjectsController.importNewDatabaseProject                                *)
(* The answer of a prompt is a record [given, value]: given is FALSE when the  *)
(* prompt was cancelled (undefined). A call keeps the answers it was given,    *)
(* the steps it made, the errors it showed, the disk as fs.readdir found it    *)
(* (checked), and the numbers of its createNewProject and openProject calls.   *)

\* The largest number of importNewDatabaseProject calls made.
MaxImports == 1

Cancelled == [given |-> FALSE, value |-> <<>>]

Answer(value) == [given |-> TRUE, value |-> value]

\* azdata.ExtractTarget, by the names of its members (first character, rest)
ExtractTarget ==
    [key \in {<<"d", "acpac">>, <<"f", "ile">>, <<"f", "lat">>, <<"o", "bjectType">>,
              <<"s", "chema">>, <<"s", "chemaObjectType">>} |->
        CASE key = <<"d", "acpac">> -> 0
          [] key = <<"f", "ile">> -> 1
          [] key = <<"f", "lat">> -> 2
          [] key = <<"o", "bjectType">> -> 3
          [] key = <<"s", "chema">> -> 4
          [] key = <<"s", "chemaObjectType">> -> 5]

\* utils.toPascalCase(str), utils.toCamelCase(str): the first character in upper, in lower case
toPascalCase(str) ==
    [str EXCEPT ![1] = CASE @ = "d" -> "D" [] @ = "f" -> "F" [] @ = "o" -> "O" [] @ = "s" -> "S" [] OTHER -> @]

toCamelCase(str) ==
    [str EXCEPT ![1] = CASE @ = "D" -> "d" [] @ = "F" -> "f" [] @ = "O" -> "o" [] @ = "S" -> "s" [] OTHER -> @]

\* The labels of the quick pick of getExtractTarget: every member but dacpac
extractTargetOptions == {toPascalCase(key) : key \in DOMAIN ExtractTarget \ {<<"d", "acpac">>}}

\* getExtractTarget(), input the answer of the quick pick; a label that names no
\* member gives undefined, which the test !extractTarget does not tell from 0
getExtractTarget(input) ==
    IF input.given /\ input.value # <<>>
    THEN LET camelCaseInput == toCamelCase(input.value) IN
         IF camelCaseInput \in DOMAIN ExtractTarget THEN ExtractTarget[camelCaseInput] ELSE 0
    ELSE -1

\* !extractTarget || extractTarget === -1
ExtractTargetMissing(extractTarget) == extractTarget = 0 \/ extractTarget = -1

\* str.trim()
Trim(str) ==
    LET at == {k \in 1..Len(str) : str[k] # " "} IN
    IF at = {} THEN <<>>
    ELSE SubSeq(str, CHOOSE k \in at : \A l \in at : k <= l, CHOOSE k \in at : \A l \in at : l <= k)

\* getProjectName(dbName), input the answer of the input box
getProjectName(input) == IF input.given THEN Answer(Trim(input.value)) ELSE Cancelled

\* The errors importNewDatabaseProject throws, and those of its calls.
ProjectNameRequired == [msg |-> "constants.projectNameRequired", title |-> <<>>]

ExtractTargetRequired == [msg |-> "constants.extractTargetRequired", title |-> <<>>]

ProjectLocationRequired == [msg |-> "constants.projectLocationRequired", title |-> <<>>]

ProjectLocationNotEmpty == [msg |-> "constants.projectLocationNotEmpty", title |-> <<>>]

ReaddirError(folder) == [msg |-> "ENOENT: no such file or directory, scandir {0}", title |-> folder]

ImportApiError == [msg |-> "importDatabaseProject failed", title |-> <<>>]

AddToProjectError == [msg |-> "addToProject failed", title |-> <<>>]

\* The project folder as a path, and the names of the folders an extraction makes.
ProjectFolderPath == <<ProjectFolder>>

ExtractedFolders == {<<"dbo">>}

\* The disk of the projects as paths: every file and folder of projFs lies in
\* the project folder
ProjectDisk(fs) ==
    [path \in (IF ProjectFolder \in DOMAIN fs THEN {ProjectFolderPath} ELSE {})
                 \cup {Join(ProjectFolderPath, name) : name \in DOMAIN fs \ {ProjectFolder}} |->
        IF path = ProjectFolderPath \/ path[Len(path)] \in ExtractedFolders THEN "folder" ELSE "file"]

\* isDirEmpty that never looks: every folder is taken to be empty.
isDirEmptyAlways(disk, folder) == TRUE

\* isDirEmpty(newProjFolderUri): (await fs.readdir(folder)).length === 0
isDirEmpty(disk, folder) == \A path \in DOMAIN disk : Dirname(path) # folder

\* The orders in which the host may list the names of S.
OrdersOf(S) == {order \in [1..Cardinality(S) -> S] : \A x \in S : \E k \in DOMAIN order : order[k] = x}

\* generateList(absolutePath) from call to return: the list and the error shown
RECURSIVE generateListLoop(_, _, _, _)
generateListLoop(disk, stack, fileFolderList, order) ==
    LET next == generateListStep(disk, stack, fileFolderList, order) IN
    IF next.files # <<>> THEN generateListLoop(disk, next.files, next.fileFolderList, order)
    ELSE next.fileFolderList

generateList(disk, absolutePath, order) ==
    LET start == generateListStart(disk, absolutePath) IN
    IF start.resolved
    THEN [list |-> generateListLoop(disk, <<start.path>>, <<>>, order), err |-> NoMessage]
    ELSE [list |-> <<>>, err |-> CannotResolvePath(absolutePath)]

\* catch (err) { this.apiWrapper.showErrorMessage(utils.getErrorMessage(err)); }
ImportCatch(i, err) ==
    /\ tasks' = [tasks EXCEPT ![i].pc = "returned", ![i].errs = Append(@, err)]
    /\ shown' = Append(shown, err)

\* The import calls made.
Imports == {i \in 1..Len(tasks) : tasks[i].op = "importNewDatabaseProject"}

\* importNewDatabaseProject(context) is called and runs up to the input box of
\* getProjectName
ImportNewDatabaseProject ==
    /\ Cardinality(Imports) < MaxImports
    /\ tasks' = Append(tasks,
                  [op |-> "importNewDatabaseProject", pc |-> "getProjectName",
                   steps |-> <<"getProjectName">>, errs |-> <<>>,
                   answers |-> [name |-> Cancelled, target |-> Cancelled, location |-> Cancelled],
                   projName |-> <<>>, extractTarget |-> 0, projUri |-> <<>>,
                   folder |-> <<>>, checked |-> [done |-> FALSE, fs |-> NoFiles], filePath |-> <<>>,
                   create |-> 0, open |-> 0, list |-> <<>>])
    /\ UNCHANGED <<bookVars, projectVars, arcVars>>

\* The input box is answered: the name is required; the call goes on to the
\* quick pick of getExtractTarget
ImportProjectName(i, input) ==
    /\ tasks[i].op = "importNewDatabaseProject" /\ tasks[i].pc = "getProjectName"
    /\ LET newProjName == getProjectName(input)
           task == [tasks[i] EXCEPT !.answers.name = input]
       IN IF ~newProjName.given \/ newProjName.value = <<>>
          THEN /\ tasks' = [tasks EXCEPT ![i] = [task EXCEPT !.pc = "returned",
                                                             !.errs = Append(@, ProjectNameRequired)]]
               /\ shown' = Append(shown, ProjectNameRequired)
          ELSE /\ tasks' = [tasks EXCEPT ![i] = [task EXCEPT !.pc = "getExtractTarget",
                                                             !.projName = newProjName.value,
                                                             !.steps = Append(@, "getExtractTarget")]]
               /\ UNCHANGED shown
    /\ UNCHANGED <<bookVarsButShown, projectVars, arcVars>>

\* The quick pick is answered: the extract target is required; the call goes on
\* to the dialog of getFolderLocation
ImportExtractTarget(i, input) ==
    /\ tasks[i].op = "importNewDatabaseProject" /\ tasks[i].pc = "getExtractTarget"
    /\ LET extractTarget == getExtractTarget(input)
           task == [tasks[i] EXCEPT !.answers.target = input]
       IN IF ExtractTargetMissing(extractTarget)
          THEN /\ tasks' = [tasks EXCEPT ![i] = [task EXCEPT !.pc = "returned",
                                                             !.errs = Append(@, ExtractTargetRequired)]]
               /\ shown' = Append(shown, ExtractTargetRequired)
          ELSE /\ tasks' = [tasks EXCEPT ![i] = [task EXCEPT !.pc = "getFolderLocation",
                                                             !.extractTarget = extractTarget,
                                                             !.steps = Append(@, "getFolderLocation")]]
               /\ UNCHANGED shown
    /\ UNCHANGED <<bookVarsButShown, projectVars, arcVars>>

\* What the dialog of getFolderLocation(extractTarget) can give: a file to save
\* to for ExtractTarget.file, else a folder
Selections(extractTarget) ==
    IF extractTarget # ExtractTarget[<<"f", "ile">>]
    THEN {Cancelled, Answer(ProjectFolderPath)}
    ELSE {Cancelled, Answer(Join(ProjectFolderPath, <<"db">>))}

\* The dialog is answered: the location is required; the folder of the project
\* is the location or, for ExtractTarget.file, its directory; the call goes on
\* to fs.readdir of isDirEmpty
ImportFolderLocation(i, selection) ==
    /\ tasks[i].op = "importNewDatabaseProject" /\ tasks[i].pc = "getFolderLocation"
    /\ selection \in Selections(tasks[i].extractTarget)
    /\ LET task == [tasks[i] EXCEPT !.answers.location = selection] IN
       IF ~selection.given
       THEN /\ tasks' = [tasks EXCEPT ![i] = [task EXCEPT !.pc = "returned",
                                                          !.errs = Append(@, ProjectLocationRequired)]]
            /\ shown' = Append(shown, ProjectLocationRequired)
       ELSE /\ tasks' = [tasks EXCEPT ![i] =
                           [task EXCEPT !.pc = "isDirEmpty",
                                        !.projUri = selection.value,
                                        !.folder = IF tasks[i].extractTarget # ExtractTarget[<<"f", "ile">>]
                                                   THEN selection.value
                                                   ELSE Dirname(selection.value),
                                        !.steps = Append(@, "isDirEmpty")]]
            /\ UNCHANGED shown
    /\ UNCHANGED <<bookVarsButShown, projectVars, arcVars>>

\* fs.readdir has listed the folder, or failed: the folder must be empty; the
\* call goes on to importApiCall(model)
ImportIsDirEmpty(i) ==
    /\ tasks[i].op = "importNewDatabaseProject" /\ tasks[i].pc = "isDirEmpty"
    /\ LET disk == ProjectDisk(projFs) IN
       IF ~PathExists(disk, tasks[i].folder)
       THEN /\ tasks' = [tasks EXCEPT ![i].pc = "returned", ![i].checked = [done |-> TRUE, fs |-> projFs],
                                      ![i].errs = Append(@, ReaddirError(tasks[i].folder))]
            /\ shown' = Append(shown, ReaddirError(tasks[i].folder))
       ELSE IF ~isDirEmpty(disk, tasks[i].folder)
       THEN /\ tasks' = [tasks EXCEPT ![i].pc = "returned", ![i].checked = [done |-> TRUE, fs |-> projFs],
                                      ![i].errs = Append(@, ProjectLocationNotEmpty)]
            /\ shown' = Append(shown, ProjectLocationNotEmpty)
       ELSE /\ tasks' = [tasks EXCEPT ![i].pc = "importApiCall", ![i].checked = [done |-> TRUE, fs |-> projFs],
                                      ![i].filePath = tasks[i].projUri,
                                      ![i].steps = Append(@, "importApiCall")]
            /\ UNCHANGED shown
    /\ UNCHANGED <<bookVarsButShown, projectVars, arcVars>>

\* What the extraction of the service writes: the file model.filePath + '.sql'
\* for ExtractTarget.file, else a folder in model.filePath
Extracted(fs, task) ==
    IF task.extractTarget = ExtractTarget[<<"f", "ile">>]
    THEN MapSet(fs, AddSqlFileExtension(task.filePath)[Len(task.filePath)], "sql text")
    ELSE MapSet(fs, <<"dbo">>, "folder")

\* importApiCall(model) is over: the service has extracted the database, has
\* extracted nothing (its result is not looked at), or the call failed; the
\* call goes on to createNewProject(newProjName, newProjFolderUri), which runs
\* up to its first await
ImportApiCall(i, outcome) ==
    /\ tasks[i].op = "importNewDatabaseProject" /\ tasks[i].pc = "importApiCall"
    /\ IF outcome = "rejected"
       THEN /\ ImportCatch(i, ImportApiError)
            /\ UNCHANGED projFs
       ELSE /\ projFs' = IF outcome = "extracted" THEN Extracted(projFs, tasks[i]) ELSE projFs
            /\ tasks' = Append([tasks EXCEPT ![i].pc = "createNewProject",
                                             ![i].create = Len(tasks) + 1,
                                             ![i].steps = Append(@, "createNewProject")],
                               createNewProjectCall(tasks[i].projName, NoGuid))
            /\ UNCHANGED shown
    /\ UNCHANGED <<bookVarsButShown, projects, arcVars>>

\* await createNewProject is over: its error is caught, or the call goes on to
\* openProject(Uri.file(newProjFilePath)), which runs up to its first await
ImportCreateNewProject(i) ==
    /\ tasks[i].op = "importNewDatabaseProject" /\ tasks[i].pc = "createNewProject"
    /\ tasks[i].create \in Completed
    /\ LET created == tasks[tasks[i].create] IN
       IF created.pc = "rejected"
       THEN ImportCatch(i, created.err)
       ELSE /\ tasks' = Append([tasks EXCEPT ![i].pc = "openProject",
                                             ![i].open = Len(tasks) + 1,
                                             ![i].steps = Append(@, "openProject")],
                               openProjectCall(created.path))
            /\ UNCHANGED shown
    /\ UNCHANGED <<bookVarsButShown, projectVars, arcVars>>

\* await openProject is over: its error is caught, or generateList(model.filePath)
\* runs (and shows its error when it finds no path) and the call goes on to
\* project.addToProject(fileFolderList)
ImportOpenProject(i, order) ==
    /\ tasks[i].op = "importNewDatabaseProject" /\ tasks[i].pc = "openProject"
    /\ tasks[i].open \in Completed
    /\ order \in OrdersOf(DOMAIN projFs \ {ProjectFolder})
    /\ LET opened == tasks[tasks[i].open]
           generated == generateList(ProjectDisk(projFs), tasks[i].filePath, order)
       IN IF opened.pc = "rejected"
          THEN ImportCatch(i, opened.err)
          ELSE /\ tasks' = [tasks EXCEPT ![i].pc = "addToProject",
                                         ![i].list = generated.list,
                                         ![i].errs = IF generated.err = NoMessage THEN @
                                                     ELSE Append(@, generated.err),
                                         ![i].steps = @ \o <<"generateList", "addToProject">>]
               /\ shown' = IF generated.err = NoMessage THEN shown ELSE Append(shown, generated.err)
    /\ UNCHANGED <<bookVarsButShown, projectVars, arcVars>>

\* await project.addToProject is over: its error is caught, or the tree is
\* refreshed and the call returns
ImportAddToProject(i, added) ==
    /\ tasks[i].op = "importNewDatabaseProject" /\ tasks[i].pc = "addToProject"
    /\ IF ~added
       THEN ImportCatch(i, AddToProjectError)
       ELSE /\ tasks' = [tasks EXCEPT ![i].pc = "returned",
                                      ![i].steps = Append(@, "refreshProjectsTree")]
            /\ UNCHANGED shown
    /\ UNCHANGED <<bookVarsButShown, projectVars, arcVars>>

(* importNewDatabaseProject on a project folder that is empty, holds a file or  *)
(* is missing; the user answers or cancels each prompt, and the service and the *)
(* project answer or fail.                                                      *)

NameInputs == {Cancelled, Answer(<<" ">>), Answer(<<" ", "p">>), Answer(<<"p", "@", "@">>)}

TargetInputs == {Cancelled} \cup {Answer(label) : label \in extractTargetOptions}

ImportDisks ==
    {NoFiles,
     [path \in {ProjectFolder} |-> "folder"],
     [path \in {ProjectFolder, <<"readme">>} |-> "folder"]}

InitImport ==
    /\ InitProviderIdle
    /\ projFs \in ImportDisks
    /\ projects = <<>> /\ controllerNodes = <<>> /\ globalState = <<>>
    /\ tasks = <<>>

NextImport ==
    \/ ImportNewDatabaseProject
    \/ \E i \in 1..Len(tasks), input \in NameInputs : ImportProjectName(i, input)
    \/ \E i \in 1..Len(tasks), input \in TargetInputs : ImportExtractTarget(i, input)
    \/ \E i \in 1..Len(tasks), selection \in {Cancelled} \cup {Answer(Join(ProjectFolderPath, <<"db">>)), Answer(ProjectFolderPath)} :
          ImportFolderLocation(i, selection)
    \/ \E i \in 1..Len(tasks) : ImportIsDirEmpty(i)
    \/ \E i \in 1..Len(tasks), outcome \in {"extracted", "nothing", "rejected"} : ImportApiCall(i, outcome)
    \/ \E i \in 1..Len(tasks) : CreateAccess(i)
    \/ \E i \in 1..Len(tasks) : CreateMkdir(i)
    \/ \E i \in 1..Len(tasks) : CreateWriteFile(i)
    \/ \E i \in 1..Len(tasks) : ImportCreateNewProject(i)
    \/ \E i \in 1..Len(tasks), readable \in BOOLEAN : OpenReadProjFile(i, readable)
    \/ \E i \in 1..Len(tasks), outcome \in {"loaded", "NoDataSourcesFileError", "error"} :
          OpenLoadDataSources(i, outcome)
    \/ \E i \in 1..Len(tasks), order \in OrdersOf(DOMAIN projFs \ {ProjectFolder}) : ImportOpenProject(i, order)
    \/ \E i \in 1..Len(tasks), added \in BOOLEAN : ImportAddToProject(i, added)

SpecImport == InitImport /\ [][NextImport]_vars

\* The steps of importNewDatabaseProject, in order.
ImportOrder ==
    <<"getProjectName", "getExtractTarget", "getFolderLocation", "isDirEmpty", "importApiCall",
      "createNewProject", "openProject", "generateList", "addToProject", "refreshProjectsTree">>

IsPrefixOf(seq, whole) == Len(seq) <= Len(whole) /\ seq = SubSeq(whole, 1, Len(seq))

\* What the user gave the call, and what fs.readdir found: no name (cancelled,
\* or blank), no extract target, no location, a folder that holds something.
NameMissing(task) ==
    ~task.answers.name.given \/ \A k \in 1..Len(task.answers.name.value) : task.answers.name.value[k] = " "

TargetMissing(task) == ~NameMissing(task) /\ ~task.answers.target.given

LocationMissing(task) == ~NameMissing(task) /\ ~TargetMissing(task) /\ ~task.answers.location.given

FolderNotEmpty(task) ==
    /\ task.checked.done
    /\ ProjectFolder \in DOMAIN task.checked.fs
    /\ DOMAIN task.checked.fs \ {ProjectFolder} # {}

\* The number of error messages the import calls 1..n have shown.
RECURSIVE ErrorsShown(_)
ErrorsShown(n) ==
    IF n = 0 THEN 0
    ELSE ErrorsShown(n - 1) + (IF n \in Imports THEN Len(tasks[n].errs) ELSE 0)

\* C21: the steps of every run of importNewDatabaseProject occur in the order
\* project name, extract target, location, folder checked empty, DacFx import
\* call, createNewProject, openProject, generateList, addToProject, tree
\* refresh (the steps made are the first steps of that order, and the
\* createNewProject and openProject calls are made in that order, the second
\* after the first returned). When the name, the extract target or the location
\* is missing or the folder is not empty, the run makes neither the DacFx call
\* nor createNewProject nor openProject and shows exactly one error message,
\* that of what is missing. The promise of the method never rejects.
C21_ImportStepsInOrder ==
    /\ \A i \in Imports :
          LET task == tasks[i] IN
          /\ task.pc # "rejected"
          /\ IsPrefixOf(task.steps, ImportOrder)
          /\ task.create # 0 <=> \E k \in 1..Len(task.steps) : task.steps[k] = "createNewProject"
          /\ task.open # 0 <=> \E k \in 1..Len(task.steps) : task.steps[k] = "openProject"
          /\ task.create # 0 =>
                /\ task.create > i /\ tasks[task.create].op = "createNewProject"
                /\ tasks[task.create].name = Trim(task.answers.name.value)
                /\ task.checked.done
          /\ task.open # 0 =>
                /\ task.open > task.create /\ tasks[task.open].op = "openProject"
                /\ tasks[task.create].pc = "returned"
                /\ tasks[task.open].path = tasks[task.create].path
          /\ (task.pc = "returned" /\ (NameMissing(task) \/ TargetMissing(task)
                                       \/ LocationMissing(task) \/ FolderNotEmpty(task))) =>
                /\ \A k \in 1..Len(task.steps) : task.steps[k] # "importApiCall"
                /\ task.create = 0 /\ task.open = 0
                /\ task.errs = << IF NameMissing(task) THEN ProjectNameRequired
                                  ELSE IF TargetMissing(task) THEN ExtractTargetRequired
                                  ELSE IF LocationMissing(task) THEN ProjectLocationRequired
                                  ELSE ProjectLocationNotEmpty >>
    /\ Len(shown) = ErrorsShown(Len(tasks))

\* A run has returned for a folder that is not empty: the four prompts and
\* checks were made in order, nothing after them, and the one error was shown.
C21_Witness ==
    \E i \in Imports :
        /\ tasks[i].pc = "returned" /\ FolderNotEmpty(tasks[i])
        /\ tasks[i].steps = SubSeq(ImportOrder, 1, Len(tasks[i].steps))
        /\ tasks[i].steps[Len(tasks[i].steps)] = "isDirEmpty"
        /\ shown = <<ProjectLocationNotEmpty>>

====
